---------------------------- MODULE Spec2Model ----------------------------
(***************************************************************************)
(* A model of the HLS streaming reverse proxy: the per-IP throttler, the   *)
(* short-TTL playlist cache, the URL safety layer, the host policy, the    *)
(* manifest rewrite and the request handlers that tie them together.       *)
(*                                                                         *)
(* JavaScript strings are TLA+ strings, handled character by character     *)
(* with Len, SubSeq and \o.  An optional value (undefined or a string) is  *)
(* the empty tuple <<>> or the one-element tuple <<s>>.                    *)
(***************************************************************************)
EXTENDS Integers, Sequences, FiniteSets, TLC

(***************************************************************************)
(* Bounds of the model.                                                    *)
(***************************************************************************)
\* the clock advances at most this many times in a behaviour
MaxTicks == 3
\* largest maxRequests the throttler is configured with
MaxRequestsCfg == 3
\* most lines of a playlist
MaxLines == 2

(***************************************************************************)
(* String primitives (String.prototype).                                   *)
(***************************************************************************)
Undefined == <<>>

Some(s) == <<s>>

\* JavaScript truthiness of an optional string: undefined and "" are falsy
Truthy(v) == v # Undefined /\ v[1] # ""

CharAt(s, i) == SubSeq(s, i, i)

StartsWith(s, p) == Len(s) >= Len(p) /\ SubSeq(s, 1, Len(p)) = p

EndsWith(s, p) == Len(s) >= Len(p) /\ SubSeq(s, Len(s) - Len(p) + 1, Len(s)) = p

\* s.substring(i) with a 1-based index: the suffix that starts at position i
From(s, i) == SubSeq(s, i, Len(s))

\* the least number of a non-empty set
Min(S) == CHOOSE x \in S : \A y \in S : x <= y

\* 1-based position of the first occurrence of p in s at or after i, 0 if none
IndexOfFrom(s, p, i) ==
    LET hits == {j \in i..(Len(s) - Len(p) + 1) : SubSeq(s, j, j + Len(p) - 1) = p}
    IN  IF hits = {} THEN 0 ELSE Min(hits)

RECURSIVE ConcatRange(_, _, _)
\* parts[lo] \o ... \o parts[hi]
ConcatRange(parts, lo, hi) ==
    IF lo > hi THEN ""
    ELSE IF lo = hi THEN parts[lo]
    ELSE ConcatRange(parts, lo, (lo + hi) \div 2)
         \o ConcatRange(parts, (lo + hi) \div 2 + 1, hi)

\* the concatenation of a sequence of strings
Concat(parts) == ConcatRange(parts, 1, Len(parts))

IndexOf(s, p) == IndexOfFrom(s, p, 1)

Includes(s, p) == IndexOf(s, p) # 0

\* the characters String.prototype.trim removes (those the inputs can hold)
IsSpace(c) == c = " " \/ c = "\t" \/ c = "\r" \/ c = "\n"

RECURSIVE TrimStart(_)
TrimStart(s) ==
    IF s # "" /\ IsSpace(CharAt(s, 1)) THEN TrimStart(From(s, 2)) ELSE s

RECURSIVE TrimEnd(_)
TrimEnd(s) ==
    IF s # "" /\ IsSpace(CharAt(s, Len(s)))
    THEN TrimEnd(SubSeq(s, 1, Len(s) - 1)) ELSE s

Trim(s) == TrimEnd(TrimStart(s))

RECURSIVE Split(_, _)
\* s.split(sep) for a non-empty separator: always at least one part
Split(s, sep) ==
    LET i == IndexOf(s, sep)
    IN  IF i = 0 THEN <<s>>
        ELSE <<SubSeq(s, 1, i - 1)>> \o Split(From(s, i + Len(sep)), sep)

RECURSIVE Join(_, _)
\* parts.join(sep)
Join(parts, sep) ==
    IF Len(parts) = 0 THEN ""
    ELSE IF Len(parts) = 1 THEN parts[1]
    ELSE parts[1] \o sep \o Join(Tail(parts), sep)

\* s.replace(p, r) for a string pattern: the first occurrence only
ReplaceFirst(s, p, r) ==
    LET i == IndexOf(s, p)
    IN  IF i = 0 THEN s
        ELSE SubSeq(s, 1, i - 1) \o r \o From(s, i + Len(p))

\* Math.ceil(x / 1000)
CeilDiv1000(x) == -((-x) \div 1000)

(***************************************************************************)
(* Characters and percent-encoding.  The strings of the model are printable *)
(* ASCII without the backquote (which a TLA+ string cannot hold), plus     *)
(* tab, line feed and carriage return.                                     *)
(***************************************************************************)
\* the printable ASCII characters in code order: 0x20 (space) to 0x5F, and
\* 0x61 to 0x7E
AsciiLow == " !\"#$%&'()*+,-./0123456789:;<=>?@ABCDEFGHIJKLMNOPQRSTUVWXYZ[\\]^_"

AsciiHigh == "abcdefghijklmnopqrstuvwxyz{|}~"

UpperAlpha == "ABCDEFGHIJKLMNOPQRSTUVWXYZ"

LowerAlpha == "abcdefghijklmnopqrstuvwxyz"

Digits == "0123456789"

HexDigits == "0123456789ABCDEF"

IsAlpha(c) == Len(c) = 1 /\ (Includes(UpperAlpha, c) \/ Includes(LowerAlpha, c))

IsDigit(c) == Len(c) = 1 /\ Includes(Digits, c)

IsHexDigit(c) == Len(c) = 1 /\ (Includes(HexDigits, c) \/ Includes("abcdef", c))

\* the character code of a printable ASCII character
CharCode(c) ==
    IF Includes(AsciiLow, c) THEN 31 + IndexOf(AsciiLow, c) ELSE 96 + IndexOf(AsciiHigh, c)

\* the value of a hexadecimal digit
HexValue(c) ==
    IF Includes(HexDigits, c) THEN IndexOf(HexDigits, c) - 1
    ELSE 9 + IndexOf("abcdef", c)

\* %XX for a printable ASCII character, in upper-case hexadecimal
PercentEncodeChar(c) ==
    "%" \o CharAt(HexDigits, (CharCode(c) \div 16) + 1)
        \o CharAt(HexDigits, (CharCode(c) % 16) + 1)

\* one character in lower case
LowerChar(c) ==
    IF Includes(UpperAlpha, c) THEN CharAt(LowerAlpha, IndexOf(UpperAlpha, c)) ELSE c

ToLowerCase(s) == Concat([i \in 1..Len(s) |-> LowerChar(CharAt(s, i))])

\* s with every character of the string set replaced by its %XX
PercentEncode(s, set) ==
    Concat([i \in 1..Len(s) |->
               IF Includes(set, CharAt(s, i)) THEN PercentEncodeChar(CharAt(s, i))
               ELSE CharAt(s, i)])

\* the characters encodeURIComponent escapes, among printable ASCII
ComponentEscaped == " \"#$%&+,/:;<=>?@[\\]^{|}"

encodeURIComponent(s) == PercentEncode(s, ComponentEscaped)

\* whether position i of s starts a %XX escape
IsEscapeAt(s, i) ==
    /\ CharAt(s, i) = "%"
    /\ i + 2 <= Len(s)
    /\ IsHexDigit(CharAt(s, i + 1))
    /\ IsHexDigit(CharAt(s, i + 2))

\* the byte a %XX escape at position i stands for
EscapeCode(s, i) == 16 * HexValue(CharAt(s, i + 1)) + HexValue(CharAt(s, i + 2))

\* the character of a byte (printable ASCII, tab, line feed, carriage return)
CharOfCode(n) ==
    IF n = 9 THEN "\t" ELSE IF n = 10 THEN "\n" ELSE IF n = 13 THEN "\r"
    ELSE IF n < 96 THEN CharAt(AsciiLow, n - 31) ELSE CharAt(AsciiHigh, n - 96)

\* the bytes the strings of the model can hold
IsModelByte(n) == (n >= 32 /\ n <= 126 /\ n # 96) \/ n = 9 \/ n = 10 \/ n = 13

\* whether position i of s starts an escape that stands for a byte of the model
IsByteEscapeAt(s, i) == IsEscapeAt(s, i) /\ IsModelByte(EscapeCode(s, i))

\* whether position i of s is one of the two digits of the escape before it
InEscape(s, i) ==
    \/ i > 1 /\ IsByteEscapeAt(s, i - 1)
    \/ i > 2 /\ IsByteEscapeAt(s, i - 2)

\* s with every escape that stands for a byte of the model decoded
DecodeEscapes(s) ==
    Concat([i \in 1..Len(s) |->
               IF IsByteEscapeAt(s, i) THEN CharOfCode(EscapeCode(s, i))
               ELSE IF InEscape(s, i) THEN ""
               ELSE CharAt(s, i)])

\* decodeURIComponent: Undefined stands for the URIError it throws on a
\* malformed escape (a byte of 0x80 and more is taken as malformed here: the
\* inputs of the model are ASCII)
decodeURIComponent(s) ==
    IF \E i \in 1..Len(s) : CharAt(s, i) = "%" /\ ~IsByteEscapeAt(s, i)
    THEN Undefined
    ELSE Some(DecodeEscapes(s))

\* the URL standard's percent-decode: a malformed escape is left as it is
PercentDecode(s) == DecodeEscapes(s)

(***************************************************************************)
(* new URL(input, base): the URL parser of the runtime, for http, https    *)
(* and the other schemes over the characters the inputs of the model use   *)
(* (no credentials, no backslash, no IPv6 or numeric host, ASCII only).    *)
(* A parsed URL is a record; ok = FALSE stands for the TypeError thrown.   *)
(***************************************************************************)
SpecialSchemes == {"http", "https", "ftp", "ws", "wss"}

DefaultPort(scheme) ==
    CASE scheme = "http" -> "80"
      [] scheme = "https" -> "443"
      [] scheme = "ftp" -> "21"
      [] scheme = "ws" -> "80"
      [] scheme = "wss" -> "443"
      [] OTHER -> ""

UrlFailure ==
    [ok |-> FALSE, scheme |-> "", special |-> FALSE, host |-> "", port |-> "",
     path |-> "", query |-> Undefined, fragment |-> Undefined]

\* the characters the parser percent-encodes in a path segment, a query and
\* a fragment
PathEscaped == " \"#<>?{}"

QueryEscaped == " \"#<>'"

FragmentEscaped == " \"<>"

\* the characters a host must not hold once percent-decoded
ForbiddenHostChars == " #/:<>?@[\\]^|%\t\r\n"

\* the parser drops every tab and newline of its input
RemoveTabNewline(s) ==
    Concat([i \in 1..Len(s) |->
               IF CharAt(s, i) \in {"\t", "\n", "\r"} THEN "" ELSE CharAt(s, i)])

\* position of the first character of s at or after i that is in the string
\* set, Len(s) + 1 if there is none
FirstOf(s, set, i) ==
    LET hits == {j \in i..Len(s) : Includes(set, CharAt(s, j))}
    IN  IF hits = {} THEN Len(s) + 1 ELSE Min(hits)

AnyCharIn(s, set) == FirstOf(s, set, 1) <= Len(s)

\* a character a scheme may hold after its first letter
IsSchemeChar(c) == IsAlpha(c) \/ IsDigit(c) \/ Includes("+-.", c)

\* position of the colon that ends a leading scheme, 0 if s starts with none
SchemeEnd(s) ==
    LET c == IndexOf(s, ":")
    IN  IF c > 1 /\ IsAlpha(CharAt(s, 1)) /\ \A j \in 2..(c - 1) : IsSchemeChar(CharAt(s, j))
        THEN c ELSE 0

AllDigits(s) == \A i \in 1..Len(s) : IsDigit(CharAt(s, i))

RECURSIVE StripZeros(_)
StripZeros(s) == IF Len(s) > 1 /\ CharAt(s, 1) = "0" THEN StripZeros(From(s, 2)) ELSE s

RECURSIVE StrToNat(_)
\* the number a string of decimal digits stands for
StrToNat(s) ==
    IF s = "" THEN 0
    ELSE 10 * StrToNat(SubSeq(s, 1, Len(s) - 1)) + (IndexOf(Digits, CharAt(s, Len(s))) - 1)

\* a port is decimal and at most 65535
ValidPort(p) == AllDigits(p) /\ Len(StripZeros(p)) <= 5 /\ StrToNat(StripZeros(p)) <= 65535

\* the port as serialized: none for an empty or default port
NormalPort(scheme, p) ==
    IF p = "" \/ StripZeros(p) = DefaultPort(scheme) THEN "" ELSE StripZeros(p)

IsSingleDot(seg) == seg = "." \/ ToLowerCase(seg) = "%2e"

IsDoubleDot(seg) ==
    seg = ".." \/ ToLowerCase(seg) = ".%2e" \/ ToLowerCase(seg) = "%2e." \/
    ToLowerCase(seg) = "%2e%2e"

Pop(segs) == IF Len(segs) = 0 THEN segs ELSE SubSeq(segs, 1, Len(segs) - 1)

RECURSIVE PathWalk(_, _, _)
\* the path state: raw segments k.. are added to segs, dot segments resolved
PathWalk(raw, k, segs) ==
    IF k > Len(raw) THEN segs
    ELSE IF IsDoubleDot(raw[k])
    THEN PathWalk(raw, k + 1, IF k = Len(raw) THEN Append(Pop(segs), "") ELSE Pop(segs))
    ELSE IF IsSingleDot(raw[k])
    THEN PathWalk(raw, k + 1, IF k = Len(raw) THEN Append(segs, "") ELSE segs)
    ELSE PathWalk(raw, k + 1, Append(segs, PercentEncode(raw[k], PathEscaped)))

\* the segments of a serialized path
PathSegments(path) == Split(From(path, 2), "/")

\* the query and the fragment of the text t that follows a path
QueryOf(t) ==
    IF StartsWith(t, "?")
    THEN Some(PercentEncode(SubSeq(t, 2, FirstOf(t, "#", 1) - 1), QueryEscaped))
    ELSE Undefined

FragmentOf(t) ==
    IF Includes(t, "#")
    THEN Some(PercentEncode(From(t, IndexOf(t, "#") + 1), FragmentEscaped))
    ELSE Undefined

\* the path, query and fragment states: t starts at the path, which ends
\* before position pe; segs are the segments a relative path starts from
ParseTailAt(scheme, host, port, segs, t, pe) ==
    [ok |-> TRUE, scheme |-> scheme, special |-> TRUE, host |-> host, port |-> port,
     path |-> "/" \o Join(PathWalk(Split(IF StartsWith(t, "/") THEN SubSeq(t, 2, pe - 1)
                                         ELSE SubSeq(t, 1, pe - 1), "/"),
                                   1, IF StartsWith(t, "/") THEN << >> ELSE segs), "/"),
     query |-> QueryOf(From(t, pe)), fragment |-> FragmentOf(From(t, pe))]

ParseTail(scheme, host, port, segs, t) ==
    ParseTailAt(scheme, host, port, segs, t, FirstOf(t, "?#", 1))

RECURSIVE SkipSlashes(_)
SkipSlashes(s) == IF StartsWith(s, "/") THEN SkipSlashes(From(s, 2)) ELSE s

\* the host and port states, and t, what follows the authority
ParseHostPort(scheme, host, rawPort, t) ==
    IF host = "" \/ AnyCharIn(host, ForbiddenHostChars) \/ ~ValidPort(rawPort)
    THEN UrlFailure
    ELSE ParseTail(scheme, host, NormalPort(scheme, rawPort), << >>, t)

\* the authority auth, whose first colon is at position c (0: none)
ParseAuthorityAt(scheme, auth, c, t) ==
    ParseHostPort(scheme,
                  ToLowerCase(PercentDecode(IF c = 0 THEN auth ELSE SubSeq(auth, 1, c - 1))),
                  IF c = 0 THEN "" ELSE From(auth, c + 1), t)

\* the authority state and what follows it, s starting at the host
ParseAuthority(scheme, s) ==
    LET e == FirstOf(s, "/?#", 1)
    IN  ParseAuthorityAt(scheme, SubSeq(s, 1, e - 1), IndexOf(SubSeq(s, 1, e - 1), ":"),
                         From(s, e))

\* a reference without a scheme, resolved against the parsed base b
ParseRelative(s, b) ==
    IF StartsWith(s, "//") THEN ParseAuthority(b.scheme, SkipSlashes(s))
    ELSE IF s = "" THEN [b EXCEPT !.fragment = Undefined]
    ELSE IF StartsWith(s, "?")
    THEN [b EXCEPT !.query = QueryOf(s), !.fragment = FragmentOf(s)]
    ELSE IF StartsWith(s, "#") THEN [b EXCEPT !.fragment = FragmentOf(s)]
    ELSE ParseTail(b.scheme, b.host, b.port,
                   IF StartsWith(s, "/") THEN << >> ELSE Pop(PathSegments(b.path)), s)

\* a URL of a scheme that is not special: its path is kept as it stands
ParseOpaque(scheme, rest) ==
    LET pe == FirstOf(rest, "?#", 1)
    IN  [ok |-> TRUE, scheme |-> scheme, special |-> FALSE, host |-> "", port |-> "",
         path |-> SubSeq(rest, 1, pe - 1),
         query |-> IF StartsWith(From(rest, pe), "?")
                   THEN Some(PercentEncode(SubSeq(From(rest, pe), 2,
                                FirstOf(From(rest, pe), "#", 1) - 1), " \"#<>"))
                   ELSE Undefined,
         fragment |-> FragmentOf(From(rest, pe))]

\* the scheme states: s is the cleaned input, se the position of the colon
\* that ends its scheme (0: no scheme)
ParseScheme(s, se, base) ==
    LET scheme == ToLowerCase(SubSeq(s, 1, se - 1))
        rest == From(s, se + 1)
    IN  IF base # Undefined /\ ~base[1].ok THEN UrlFailure
        ELSE IF se # 0 /\ scheme \notin SpecialSchemes THEN ParseOpaque(scheme, rest)
        ELSE IF se # 0 /\ (base = Undefined \/ base[1].scheme # scheme
                           \/ StartsWith(rest, "//"))
        THEN ParseAuthority(scheme, SkipSlashes(rest))
        ELSE IF base = Undefined THEN UrlFailure
        ELSE ParseRelative(IF se = 0 THEN s ELSE rest, base[1])

\* new URL(input, base); base is Undefined or a parsed URL
ParseUrl(input, base) ==
    LET s == RemoveTabNewline(Trim(input))
    IN  ParseScheme(s, SchemeEnd(s), base)

\* url.href
Href(u) ==
    (IF u.special
     THEN u.scheme \o "://" \o u.host \o (IF u.port = "" THEN "" ELSE ":" \o u.port)
     ELSE u.scheme \o ":")
    \o u.path
    \o (IF u.query = Undefined THEN "" ELSE "?" \o u.query[1])
    \o (IF u.fragment = Undefined THEN "" ELSE "#" \o u.fragment[1])

\* url.protocol, url.hostname, url.pathname, url.search
Protocol(u) == u.scheme \o ":"

Hostname(u) == u.host

Pathname(u) == u.path

Search(u) == IF u.query = Undefined \/ u.query[1] = "" THEN "" ELSE "?" \o u.query[1]

\* new URL(input) without a base
NewUrl(input) == ParseUrl(input, Undefined)

\* the href of a parsed URL, Undefined when the constructor threw
HrefOf(u) == IF u.ok THEN Some(Href(u)) ELSE Undefined

\* new URL(input, base).href; Undefined when the constructor throws
ResolveHref(input, base) == HrefOf(ParseUrl(input, Some(NewUrl(base))))

(***************************************************************************)
(* Manifest rewrite (proxyM3U8, the map over the lines of the playlist).   *)
(***************************************************************************)
RECURSIVE UriMatchFrom(_, _)
\* line.match(/URI="([^"]+)"/) tried from position i on: the captured value,
\* Undefined when nothing matches
UriMatchFrom(line, i) ==
    LET p == IndexOfFrom(line, "URI=\"", i)
        q == FirstOf(line, "\"", p + 5)
    IN  IF p = 0 THEN Undefined
        ELSE IF q > p + 5 /\ q <= Len(line) THEN Some(SubSeq(line, p + 5, q - 1))
        ELSE UriMatchFrom(line, p + 1)

UriMatch(line) == UriMatchFrom(line, 1)

\* `${serverUrl}/m3u8-proxy?url=${encodeURIComponent(url)}`
M3u8ProxyUrl(serverUrl, url) == serverUrl \o "/m3u8-proxy?url=" \o encodeURIComponent(url)

\* `${serverUrl}/ts-proxy?url=${encodeURIComponent(url)}`
TsProxyUrl(serverUrl, url) == serverUrl \o "/ts-proxy?url=" \o encodeURIComponent(url)

\* a line the map callback returns
Returned(text) == [threw |-> FALSE, text |-> text]

\* the TypeError of new URL leaves the map callback
Threw == [threw |-> TRUE, text |-> ""]

\* the #EXT-X-MEDIA branch
ReplaceMediaUri(line, uri, mediaUrl, serverUrl) ==
    IF mediaUrl = Undefined THEN Threw
    ELSE Returned(ReplaceFirst(line, uri, M3u8ProxyUrl(serverUrl, mediaUrl[1])))

RewriteMediaLine(line, targetUrl, serverUrl) ==
    LET uriMatch == UriMatch(line)
    IN  IF uriMatch = Undefined THEN Returned(line)
        ELSE ReplaceMediaUri(line, uriMatch[1], ResolveHref(uriMatch[1], targetUrl),
                             serverUrl)

\* the #EXT-X-KEY branch
ReplaceKeyUri(line, uri, keyUrl, serverUrl) ==
    IF keyUrl = Undefined THEN Threw
    ELSE Returned(ReplaceFirst(line, uri, TsProxyUrl(serverUrl, keyUrl[1])))

RewriteKeyLine(line, targetUrl, serverUrl) ==
    LET uriMatch == UriMatch(line)
    IN  IF uriMatch = Undefined THEN Returned(line)
        ELSE ReplaceKeyUri(line, uriMatch[1], ResolveHref(uriMatch[1], targetUrl),
                           serverUrl)

\* the branch of the lines that are no comments, were it to look for m3u8
\* in the path of the resolved URL as well
ProxiedSegmentByPath(line, segmentUrl, serverUrl) ==
    IF segmentUrl = Undefined THEN Returned(line)
    ELSE IF Includes(line, "m3u8") \/ Includes(Pathname(NewUrl(segmentUrl[1])), "m3u8")
    THEN Returned(M3u8ProxyUrl(serverUrl, segmentUrl[1]))
    ELSE Returned(TsProxyUrl(serverUrl, segmentUrl[1]))

\* the branch of the lines that are no comments
ProxiedSegment(line, segmentUrl, serverUrl) ==
    IF segmentUrl = Undefined THEN Returned(line)
    ELSE IF Includes(line, ".m3u8") \/ Includes(line, "m3u8")
    THEN Returned(M3u8ProxyUrl(serverUrl, segmentUrl[1]))
    ELSE Returned(TsProxyUrl(serverUrl, segmentUrl[1]))

\* the segment branch without the resolution against the playlist URL
RewriteSegmentLineUnresolved(line, targetUrl, serverUrl) ==
    ProxiedSegment(line, Some(line), serverUrl)

RewriteSegmentLine(line, targetUrl, serverUrl) ==
    ProxiedSegment(line, ResolveHref(line, targetUrl), serverUrl)

\* the map callback
ProcessLine(rawLine, targetUrl, serverUrl) ==
    LET line == Trim(rawLine)
    IN  IF line = "" \/ (StartsWith(line, "#") /\ ~Includes(line, "URI="))
        THEN Returned(line)
        ELSE IF StartsWith(line, "#EXT-X-MEDIA:") /\ Includes(line, "URI=")
        THEN RewriteMediaLine(line, targetUrl, serverUrl)
        ELSE IF StartsWith(line, "#EXT-X-KEY:") /\ Includes(line, "URI=")
        THEN RewriteKeyLine(line, targetUrl, serverUrl)
        ELSE IF ~StartsWith(line, "#")
        THEN RewriteSegmentLine(line, targetUrl, serverUrl)
        ELSE Returned(line)

\* processedLines.join('\n'), unless a callback of the map threw
JoinProcessed(processedLines) ==
    IF \E i \in DOMAIN processedLines : processedLines[i].threw THEN Threw
    ELSE Returned(Join([i \in DOMAIN processedLines |-> processedLines[i].text], "\n"))

\* m3u8Content.split('\n').map(...).join('\n')
ProcessManifest(m3u8Content, targetUrl, serverUrl) ==
    LET lines == Split(m3u8Content, "\n")
    IN  JoinProcessed([i \in DOMAIN lines |-> ProcessLine(lines[i], targetUrl, serverUrl)])

(***************************************************************************)
(* State.                                                                  *)
(***************************************************************************)
VARIABLES
    now,                \* Date.now(), in milliseconds
    ticks,              \* how often the clock has advanced
    THROTTLE_CONFIG,    \* the throttler's configuration
    requestTimestamps,  \* the throttler's Map: client identifier -> timestamps
    throttleRes,        \* what throttleMiddleware did with the latest request
    call,               \* a call of a pure function: its name and arguments
    result,             \* what that call returned, Undefined before it returns
    playlistCache,      \* the playlist cache: URL -> [v: content, t: expiry time]
    lastSet,            \* per URL, the latest setCachedPlaylist since the last flush
    got,                \* the getCachedPlaylist call just made and what it returned
    ALLOWED_HOSTS,      \* the host allowlist
    received,           \* how many requests the proxy routes have received
    request,            \* the latest request: its route and target URL
    inflight,           \* the request that awaits its upstream, Idle if none
    response,           \* what the latest request was answered with, and the
                        \* status of the upstream response it answers (0: none)
    metrics,            \* the MetricsCollector: hostMetrics and globalMetrics
    consoleLines        \* how many lines logRequest has written to the console

throttleVars == <<THROTTLE_CONFIG, requestTimestamps, throttleRes>>

clockVars == <<now, ticks>>

callVars == <<call, result>>

cacheVars == <<playlistCache, lastSet, got>>

proxyVars == <<ALLOWED_HOSTS, received, request, inflight, response>>

metricsVars == <<metrics, consoleLines>>

vars == <<now, ticks, THROTTLE_CONFIG, requestTimestamps, throttleRes, call, result,
          playlistCache, lastSet, got, ALLOWED_HOSTS, received, request, inflight, response,
          metrics, consoleLines>>

(***************************************************************************)
(* The clock.  Date.now() is taken as non-decreasing.                      *)
(***************************************************************************)
ClockInit == now = 0 /\ ticks = 0

\* this.globalMetrics of the constructor and of reset()
NoGlobalMetrics ==
    [totalRequests |-> 0, totalErrors |-> 0, totalManifestRequests |-> 0,
     totalSegmentRequests |-> 0, segmentErrors |-> 0,
     manifestTimings |-> << >>, segmentTimings |-> << >>]

\* the entry recordRequest makes for a host it has not seen
NoHostMetric ==
    [totalRequests |-> 0, totalErrors |-> 0, manifestRequests |-> 0,
     segmentRequests |-> 0, segmentErrors |-> 0,
     manifestTimings |-> << >>, segmentTimings |-> << >>,
     lastError |-> Undefined, lastErrorTime |-> Undefined]

\* new MetricsCollector(): no host, every counter at zero
NoMetrics == [hostMetrics |-> [h \in {} |-> NoHostMetric], globalMetrics |-> NoGlobalMetrics]

MetricsInit == metrics = NoMetrics /\ consoleLines = 0

\* the timings recordRequest keeps of each kind
TimingsKept == 1000

\* push(duration) without the shift() that follows it
PushedUnshifted(timings, duration) ==
    IF duration > 0 THEN Append(timings, duration) ELSE timings

\* push(duration) when duration > 0, then shift() once the timings kept are
\* exceeded
Pushed(timings, duration) ==
    IF duration > 0
    THEN IF Len(timings) + 1 > TimingsKept THEN Tail(Append(timings, duration))
         ELSE Append(timings, duration)
    ELSE timings

\* a fresh entry for every request, in place of the entry of the host
HostMetricFresh(m, hostname) == NoHostMetric

\* hostMetrics.get(hostname) after the initialisation of a host not seen
HostMetricOf(m, hostname) ==
    IF hostname \in DOMAIN m.hostMetrics THEN m.hostMetrics[hostname] ELSE NoHostMetric

Errors(success) == IF success THEN 0 ELSE 1

Requests(type, counted) == IF type = counted THEN 1 ELSE 0

\* an error counted among the segment errors whatever its type
SegmentErrorsOfAny(type, success) == IF ~success THEN 1 ELSE 0

SegmentErrors(type, success) == IF ~success /\ type = "segment" THEN 1 ELSE 0

\* statusCode || 'unknown': statusCode is Undefined for null, and 'unknown'
\* is written as the status 0, which no truthy status is
StatusOrUnknown(statusCode) ==
    IF statusCode # Undefined /\ statusCode[1] # 0 THEN statusCode ELSE Some(0)

\* the entry of the host after recordRequest; time is new Date()
RecordedHost(hostMetric, type, success, duration, statusCode, time) ==
    [totalRequests |-> hostMetric.totalRequests + 1,
     totalErrors |-> hostMetric.totalErrors + Errors(success),
     manifestRequests |-> hostMetric.manifestRequests + Requests(type, "manifest"),
     segmentRequests |-> hostMetric.segmentRequests + Requests(type, "segment"),
     segmentErrors |-> hostMetric.segmentErrors + SegmentErrors(type, success),
     manifestTimings |-> IF type = "manifest" THEN Pushed(hostMetric.manifestTimings, duration)
                         ELSE hostMetric.manifestTimings,
     segmentTimings |-> IF type = "segment" THEN Pushed(hostMetric.segmentTimings, duration)
                        ELSE hostMetric.segmentTimings,
     lastError |-> IF success THEN hostMetric.lastError
                   ELSE StatusOrUnknown(statusCode),
     lastErrorTime |-> IF success THEN hostMetric.lastErrorTime ELSE Some(time)]

RecordedGlobal(g, type, success, duration) ==
    [totalRequests |-> g.totalRequests + 1,
     totalErrors |-> g.totalErrors + Errors(success),
     totalManifestRequests |-> g.totalManifestRequests + Requests(type, "manifest"),
     totalSegmentRequests |-> g.totalSegmentRequests + Requests(type, "segment"),
     segmentErrors |-> g.segmentErrors + SegmentErrors(type, success),
     manifestTimings |-> IF type = "manifest" THEN Pushed(g.manifestTimings, duration)
                         ELSE g.manifestTimings,
     segmentTimings |-> IF type = "segment" THEN Pushed(g.segmentTimings, duration)
                        ELSE g.segmentTimings]

\* the name a host is recorded under: 'unknown' when hostname is falsy
RecordedAs(hostname) == IF Truthy(hostname) THEN hostname[1] ELSE "unknown"

\* the collector after metrics.recordRequest(hostname, type, success,
\* duration, statusCode)
recordRequest(m, hostname, type, success, duration, statusCode, time) ==
    [hostMetrics |->
        [h \in DOMAIN m.hostMetrics \cup {RecordedAs(hostname)} |->
            IF h = RecordedAs(hostname)
            THEN RecordedHost(HostMetricOf(m, h), type, success, duration, statusCode, time)
            ELSE m.hostMetrics[h]],
     globalMetrics |-> RecordedGlobal(m.globalMetrics, type, success, duration)]

\* logRequest: the request is recorded and one line is written, with
\* console.log or with console.error
logRequest(hostname, type, success, duration, statusCode) ==
    /\ metrics' = recordRequest(metrics, hostname, type, success, duration, statusCode, now)
    /\ consoleLines' = consoleLines + 1

Tick(d) ==
    /\ ticks < MaxTicks
    /\ now' = now + d
    /\ ticks' = ticks + 1
    /\ UNCHANGED metricsVars

(***************************************************************************)
(* Playlist cache (utils/hlsCache): a NodeCache with stdTTL 30 and         *)
(* checkperiod 10 and no maxKeys.  An entry holds its value v and the time *)
(* t from which a check finds it expired.                                  *)
(***************************************************************************)
\* stdTTL of playlistCache, in seconds
StdTTL == 30

PlaylistTtlMs == StdTTL * 1000

\* an entry written at time t0 without the seconds of the TTL turned into
\* milliseconds
WrapUnscaled(value, t0) == [v |-> value, t |-> t0 + StdTTL]

\* the entry NodeCache stores for a value written at time t0
Wrap(value, t0) == [v |-> value, t |-> t0 + StdTTL * 1000]

\* a check that never finds an entry expired
IsExpiredNever(entry, t0) == FALSE

\* the check of an entry at time t0
IsExpired(entry, t0) == entry.t < t0

\* the Map without the keys that are not in keep
MapKeep(map, keep) == [k \in (DOMAIN map) \cap keep |-> map[k]]

\* the Map with key set to value
MapPut(map, key, value) ==
    [k \in (DOMAIN map) \cup {key} |-> IF k = key THEN value ELSE map[k]]

\* getCachedPlaylist(url): the value it returns, Undefined for a miss
getCachedPlaylist(url) ==
    IF url \in DOMAIN playlistCache /\ ~IsExpired(playlistCache[url], now)
    THEN Some(playlistCache[url].v)
    ELSE Undefined

\* the cache after getCachedPlaylist(url): the check deletes an expired entry
AfterGet(url) ==
    IF url \in DOMAIN playlistCache /\ IsExpired(playlistCache[url], now)
    THEN MapKeep(playlistCache, (DOMAIN playlistCache) \ {url})
    ELSE playlistCache

\* the cache after setCachedPlaylist(url, content)
AfterSet(url, content) == MapPut(playlistCache, url, Wrap(content, now))

\* the cache after the periodic check: the expired entries are deleted
AfterCheck ==
    MapKeep(playlistCache, {k \in DOMAIN playlistCache : ~IsExpired(playlistCache[k], now)})

\* the URLs and the contents the cache is called with
CacheKeys == {"https://ok.example/a.m3u8", "https://cdn.ok.example/b.m3u8"}

CacheBodies == {"", "https://px.example/ts-proxy?url=https%3A%2F%2Fok.example%2Fseg1.ts"}

\* no getCachedPlaylist call has just been made
NotCalled == [key |-> "", value |-> Undefined]

CacheInit ==
    /\ playlistCache = << >>
    /\ lastSet = [k \in CacheKeys |-> Undefined]
    /\ got = NotCalled

(***************************************************************************)
(* The proxy routes: nothing received yet.                                 *)
(***************************************************************************)
Idle == [pc |-> "idle"]

NoRequest == [route |-> "", target |-> Undefined, proxied |-> Undefined]

NoResponse == [status |-> 0, code |-> "", upstream |-> 0, xcache |-> "", body |-> ""]

ProxyInit ==
    /\ received = 0
    /\ request = NoRequest
    /\ inflight = Idle
    /\ response = NoResponse

(***************************************************************************)
(* Throttler.                                                              *)
(***************************************************************************)
\* THROTTLE_CONFIG.windowMs
WindowMs == 60000

\* The requests the throttler sees: req.ip, the X-Forwarded-For and X-Real-IP
\* headers and req.connection.remoteAddress, each undefined or a string.
ThrottleRequests ==
    { [ip |-> Undefined, xff |-> Some("a, b"), xRealIp |-> Some("b"), remote |-> Some("p")],
      [ip |-> Some("p"), xff |-> Some("a"), xRealIp |-> Undefined, remote |-> Some("p")],
      [ip |-> Undefined, xff |-> Undefined, xRealIp |-> Undefined, remote |-> Some("a")] }

\* the first X-Forwarded-For value taken without trimming
XffFirstUntrimmed(req) ==
    IF req.xff = Undefined THEN Undefined
    ELSE Some(Split(req.xff[1], ",")[1])

\* req.headers['x-forwarded-for']?.split(',')[0]?.trim()
XffFirst(req) ==
    IF req.xff = Undefined THEN Undefined
    ELSE Some(Trim(Split(req.xff[1], ",")[1]))

getClientIp(req) ==
    IF Truthy(req.ip) THEN req.ip[1]
    ELSE IF Truthy(XffFirst(req)) THEN XffFirst(req)[1]
    ELSE IF Truthy(req.xRealIp) THEN req.xRealIp[1]
    ELSE IF Truthy(req.remote) THEN req.remote[1]
    ELSE "unknown"

\* a filter that keeps a timestamp lying exactly windowMs back
RecentTimestampsInclusive(timestamps, t, windowMs) ==
    LET Keep(ts) == t - ts <= windowMs
    IN  SelectSeq(timestamps, Keep)

\* timestamps.filter(ts => now - ts < windowMs)
RecentTimestamps(timestamps, t, windowMs) ==
    LET Keep(ts) == t - ts < windowMs
    IN  SelectSeq(timestamps, Keep)

\* a limit check that lets one request too many through
LimitExceededStrict(recent, maxRequests) == Len(recent) > maxRequests

\* recentTimestamps.length >= maxRequests
LimitExceeded(recent, maxRequests) == Len(recent) >= maxRequests

\* the Map with key ip set to value
MapSet(map, key, value) ==
    [k \in (DOMAIN map) \cup {key} |-> IF k = key THEN value ELSE map[k]]

\* a rejection that pushes the time of the request as an admission does
RejectedRecordPushed(recentTimestamps, t) == Append(recentTimestamps, t)

\* the record a rejected request leaves: the filtered timestamps, set before
\* the limit is checked, and nothing pushed
RejectedRecord(recentTimestamps, t) == recentTimestamps

ThrottleInit ==
    /\ THROTTLE_CONFIG \in [windowMs : {WindowMs}, maxRequests : 1..MaxRequestsCfg]
    /\ requestTimestamps = << >>
    /\ throttleRes = [req |-> Undefined, ip |-> "", status |-> 0, retryAfter |-> 0]

throttleMiddleware(req) ==
    LET ip == getClientIp(req)
        windowMs == THROTTLE_CONFIG.windowMs
        maxRequests == THROTTLE_CONFIG.maxRequests
        timestamps == IF ip \in DOMAIN requestTimestamps
                      THEN requestTimestamps[ip] ELSE << >>
        recentTimestamps == RecentTimestamps(timestamps, now, windowMs)
    IN  IF LimitExceeded(recentTimestamps, maxRequests)
        THEN /\ requestTimestamps' =
                    MapSet(requestTimestamps, ip, RejectedRecord(recentTimestamps, now))
             /\ throttleRes' =
                    [req |-> Some(req), ip |-> ip, status |-> 429,
                     retryAfter |-> CeilDiv1000(recentTimestamps[1] + windowMs - now)]
             /\ UNCHANGED <<THROTTLE_CONFIG, clockVars, metricsVars, callVars, cacheVars, proxyVars>>
        ELSE /\ requestTimestamps' =
                    MapSet(requestTimestamps, ip, Append(recentTimestamps, now))
             \* next(): the request goes on to its route, status still unset
             /\ throttleRes' = [req |-> Some(req), ip |-> ip, status |-> 0, retryAfter |-> 0]
             /\ UNCHANGED <<THROTTLE_CONFIG, clockVars, metricsVars, callVars, cacheVars, proxyVars>>

\* the setInterval callback
cleanupOldEntries ==
    LET windowMs == THROTTLE_CONFIG.windowMs
        empty == {ip \in DOMAIN requestTimestamps :
                    Len(RecentTimestamps(requestTimestamps[ip], now, windowMs)) = 0}
    IN  /\ requestTimestamps' =
               [ip \in (DOMAIN requestTimestamps) \ empty |->
                    RecentTimestamps(requestTimestamps[ip], now, windowMs)]
        /\ UNCHANGED <<THROTTLE_CONFIG, throttleRes, clockVars, metricsVars, callVars, cacheVars, proxyVars>>

\* the clock steps of the throttler's runs: requests 10 ms apart, and a jump
\* that lands a later request exactly on the edge of the window
ThrottleSteps == {10, 59990}

ThrottleTick == \E d \in ThrottleSteps : Tick(d) /\ UNCHANGED <<throttleVars, callVars, cacheVars, proxyVars>>

ThrottleRequest == \E req \in ThrottleRequests : throttleMiddleware(req)

\* no pure function is being called
CallIdle == call = [fn |-> "none"] /\ result = Undefined

InitThrottle == ClockInit /\ MetricsInit /\ ThrottleInit /\ CallIdle /\ CacheInit /\ ProxyInit /\ ALLOWED_HOSTS = {}

NextThrottle == ThrottleTick \/ ThrottleRequest \/ cleanupOldEntries

SpecThrottle == InitThrottle /\ [][NextThrottle]_vars

(***************************************************************************)
(* Throttler: properties.                                                  *)
(***************************************************************************)
\* the record of client c, empty when the Map has no entry for c
RecordOf(map, c) == IF c \in DOMAIN map THEN map[c] ELSE << >>

\* C1: whenever throttleMiddleware admits a request of client c at time now,
\* the record of c then holds at most maxRequests timestamps, each of them in
\* (now - windowMs, now].
ThrottleAdmitWindow ==
    [][\A req \in ThrottleRequests :
          (throttleMiddleware(req) /\ throttleRes'.status # 429) =>
              LET rec == RecordOf(requestTimestamps', throttleRes'.ip)
              IN  /\ Len(rec) >= 1
                  /\ Len(rec) <= THROTTLE_CONFIG.maxRequests
                  /\ \A i \in 1..Len(rec) :
                        now - THROTTLE_CONFIG.windowMs < rec[i] /\ rec[i] <= now]_vars

\* C1 witness: an admission that fills the record of a client to maxRequests = 3
\* with timestamps of different times, while another client has a record too
ThrottleAdmitWindowWitness ==
    /\ throttleRes.req # Undefined
    /\ throttleRes.status # 429
    /\ THROTTLE_CONFIG.maxRequests = 3
    /\ throttleRes.ip \in DOMAIN requestTimestamps
    /\ Len(requestTimestamps[throttleRes.ip]) = 3
    /\ requestTimestamps[throttleRes.ip][1] < requestTimestamps[throttleRes.ip][3]
    /\ requestTimestamps[throttleRes.ip][3] = now
    /\ \E other \in DOMAIN requestTimestamps :
          other # throttleRes.ip /\ Len(requestTimestamps[other]) > 0

\* the timestamps of rec that are still inside the window that ends at t
InWindow(rec, t, windowMs) ==
    LET Inside(ts) == ts > t - windowMs
    IN  SelectSeq(rec, Inside)

\* C2: each request first drops the timestamps of its client that have left
\* the window; it is answered 429 with retryAfter = ceil((oldest + windowMs -
\* now) / 1000) exactly when maxRequests or more remain, and otherwise now is
\* appended and the request admitted; the records of other clients are left
\* alone.  With windowMs = 60000 and maxRequests = 3, requests at 0, 10, 20 and
\* 30 ms end in a 429 with retryAfter = 60.
ThrottleDecision ==
    /\ [][\A req \in ThrottleRequests :
            throttleMiddleware(req) =>
              LET c == throttleRes'.ip
                  kept == InWindow(RecordOf(requestTimestamps, c), now,
                                   THROTTLE_CONFIG.windowMs)
                  wait == kept[1] + THROTTLE_CONFIG.windowMs - now
              IN  /\ \A o \in DOMAIN requestTimestamps :
                        o # c => /\ o \in DOMAIN requestTimestamps'
                                 /\ requestTimestamps'[o] = requestTimestamps[o]
                  /\ IF Len(kept) >= THROTTLE_CONFIG.maxRequests
                     THEN /\ throttleRes'.status = 429
                          /\ 1000 * throttleRes'.retryAfter >= wait
                          /\ 1000 * (throttleRes'.retryAfter - 1) < wait
                          /\ RecordOf(requestTimestamps', c) = kept
                     ELSE /\ throttleRes'.status # 429
                          /\ RecordOf(requestTimestamps', c) = Append(kept, now)]_vars
    /\ [](\A c \in DOMAIN requestTimestamps :
            ( /\ THROTTLE_CONFIG.maxRequests = 3
              /\ requestTimestamps[c] = <<0, 10, 20>>
              /\ now = 30
              /\ throttleRes.ip = c
              /\ throttleRes.status = 429 ) => throttleRes.retryAfter = 60)

\* C2 witness: the fourth request of the scenario has been rejected
ThrottleDecisionWitness ==
    /\ THROTTLE_CONFIG = [windowMs |-> 60000, maxRequests |-> 3]
    /\ now = 30
    /\ throttleRes.status = 429
    /\ throttleRes.retryAfter = 60
    /\ throttleRes.ip \in DOMAIN requestTimestamps
    /\ requestTimestamps[throttleRes.ip] = <<0, 10, 20>>

(***************************************************************************)
(* getClientIp as a pure function: two requests and their identifiers.     *)
(***************************************************************************)
IpValues == {Undefined, Some(""), Some("p")}

XffValues == {Undefined, Some(""), Some("a"), Some("a, b"), Some(" a ,b"), Some(" ,a")}

RealIpValues == {Undefined, Some(""), Some("b")}

RemoteValues == {Undefined, Some("q")}

ClientIpRequests ==
    [ip : IpValues, xff : XffValues, xRealIp : RealIpValues, remote : RemoteValues]

InitClientIp ==
    /\ ClockInit /\ MetricsInit /\ ThrottleInit /\ CacheInit /\ ProxyInit /\ ALLOWED_HOSTS = {}
    /\ THROTTLE_CONFIG.maxRequests = 1
    /\ call \in [fn : {"getClientIp"}, reqs : ClientIpRequests \X ClientIpRequests]
    /\ result = Undefined

CallGetClientIp ==
    /\ call.fn = "getClientIp"
    /\ result = Undefined
    /\ result' = Some(<<getClientIp(call.reqs[1]), getClientIp(call.reqs[2])>>)
    /\ UNCHANGED <<call, clockVars, metricsVars, throttleVars, cacheVars, proxyVars>>

NextClientIp == CallGetClientIp

SpecClientIp == InitClientIp /\ [][NextClientIp]_vars

\* v is the first comma-separated value of the header h, trimmed
IsFirstValue(h, v) ==
    \E i \in 0..Len(h), a \in 0..Len(h) :
        /\ i = Len(h) \/ CharAt(h, i + 1) = ","
        /\ \A k \in 1..i : CharAt(h, k) # ","
        /\ a + Len(v) <= i
        /\ SubSeq(h, a + 1, a + Len(v)) = v
        /\ \A k \in (1..a) \cup ((a + Len(v) + 1)..i) : CharAt(h, k) = " "
        /\ v = "" \/ (CharAt(v, 1) # " " /\ CharAt(v, Len(v)) # " ")

\* the non-empty first X-Forwarded-For values of a request (none or one)
XffFirstValues(req) ==
    IF req.xff = Undefined THEN {}
    ELSE {v \in {SubSeq(req.xff[1], a, b) : a, b \in 1..Len(req.xff[1])} :
            v # "" /\ IsFirstValue(req.xff[1], v)}

\* C3 as amended: the identifier is req.ip when that is set and non-empty;
\* otherwise the first comma-separated, trimmed value of X-Forwarded-For when
\* that is non-empty; otherwise a non-empty X-Real-IP; otherwise the peer
\* address; otherwise 'unknown'.  Two requests without req.ip that carry the
\* same X-Forwarded-For first value share one identifier.
ClientIpOrder ==
    result # Undefined =>
        /\ \A j \in 1..2 :
              LET req == call.reqs[j]
                  id == result[1][j]
              IN  IF Truthy(req.ip) THEN id = req.ip[1]
                  ELSE IF XffFirstValues(req) # {} THEN id \in XffFirstValues(req)
                  ELSE IF Truthy(req.xRealIp) THEN id = req.xRealIp[1]
                  ELSE IF Truthy(req.remote) THEN id = req.remote[1]
                  ELSE id = "unknown"
        /\ ( /\ ~Truthy(call.reqs[1].ip) /\ ~Truthy(call.reqs[2].ip)
             /\ XffFirstValues(call.reqs[1]) # {}
             /\ XffFirstValues(call.reqs[1]) = XffFirstValues(call.reqs[2]) )
           => result[1][1] = result[1][2]

\* C3 witness: two requests without req.ip whose X-Forwarded-For headers
\* differ but have the same first value, and so the same identifier
ClientIpOrderWitness ==
    /\ result # Undefined
    /\ call.reqs[1].ip = Undefined /\ call.reqs[2].ip = Undefined
    /\ call.reqs[1].xff = Some(" a ,b") /\ call.reqs[2].xff = Some("a")
    /\ call.reqs[1].xRealIp # call.reqs[2].xRealIp
    /\ result[1] = <<"a", "a">>

\* C3 as stated: two requests that carry the same (non-empty) first
\* X-Forwarded-For value always have the same identifier
ClientIpXffFirst ==
    ( /\ result # Undefined
      /\ XffFirstValues(call.reqs[1]) # {}
      /\ XffFirstValues(call.reqs[1]) = XffFirstValues(call.reqs[2]) )
    => result[1][1] = result[1][2]

(***************************************************************************)
(* The manifest rewrite as a pure function of the playlist text, the       *)
(* playlist URL and the base URL of the proxy.                             *)
(***************************************************************************)
\* the lines playlists are made of
ManifestLines ==
    << "#EXTM3U",
       "#EXT-X-MEDIA:TYPE=AUDIO,GROUP-ID=\"aud\",URI=\"a/en.m3u8\"",
       "#EXT-X-MEDIA:TYPE=AUDIO,NAME=\"en\",URI=\"en\"",
       "#EXT-X-MEDIA:TYPE=AUDIO,NAME=\"fr\"",
       "#EXT-X-KEY:METHOD=AES-128,URI=\"k.key\"",
       "#EXT-X-KEY:METHOD=AES-128,URI=\"http://\"",
       "#EXT-X-MAP:URI=\"init.mp4\"",
       "#EXTINF:4.0,",
       "sub.m3u8",
       "seg1.ts",
       "  seg1.ts\r",
       "",
       " http://\r",
       "/abs/seg2.ts?t=1",
       "https://cdn.example/v/seg3.ts#x" >>

RECURSIVE PlaylistsFrom(_, _)
\* the selections of at most n lines among ManifestLines[k..], in their order
PlaylistsFrom(k, n) ==
    IF n = 0 \/ k > Len(ManifestLines) THEN {<< >>}
    ELSE PlaylistsFrom(k + 1, n) \cup
         {<<ManifestLines[k]>> \o p : p \in PlaylistsFrom(k + 1, n - 1)}

\* the playlists of 1..n lines
Playlists(n) == {Join(p, "\n") : p \in PlaylistsFrom(1, n) \ {<< >>}}

\* the playlist URLs
TargetUrls == {"https://a.example/m/root.m3u8", "https://a.example/m3u8/v1/list"}

\* the base URLs of the proxy
ServerUrls == {"https://px.example", "http://localhost:3000"}

InitRewrite ==
    /\ ClockInit /\ MetricsInit /\ ThrottleInit /\ CacheInit /\ ProxyInit /\ ALLOWED_HOSTS = {}
    /\ THROTTLE_CONFIG.maxRequests = 1
    /\ call \in [fn : {"rewrite"}, content : Playlists(MaxLines),
                 targetUrl : TargetUrls, serverUrl : ServerUrls]
    /\ result = Undefined

CallProcessManifest ==
    /\ call.fn = "rewrite"
    /\ result = Undefined
    /\ result' = Some(ProcessManifest(call.content, call.targetUrl, call.serverUrl))
    /\ UNCHANGED <<call, clockVars, metricsVars, throttleVars, cacheVars, proxyVars>>

NextRewrite == CallProcessManifest

SpecRewrite == InitRewrite /\ [][NextRewrite]_vars

\* the rewrite returned a playlist
Rewritten == result # Undefined /\ ~result[1].threw

\* the lines of the input and of the output
InLines == Split(call.content, "\n")

OutLines == Split(result[1].text, "\n")

\* the two proxy routes under the base URL of the proxy
ProxyPrefixes == {call.serverUrl \o "/m3u8-proxy?url=", call.serverUrl \o "/ts-proxy?url="}

IsMediaOrKey(line) == StartsWith(line, "#EXT-X-MEDIA") \/ StartsWith(line, "#EXT-X-KEY")

\* C9: every non-comment, non-empty line of the rewritten manifest is the
\* input line (trimmed) or begins with S/m3u8-proxy?url= or S/ts-proxy?url=,
\* and the URI attribute of every #EXT-X-MEDIA and #EXT-X-KEY line of the
\* output points at S/...
ManifestShape ==
    Rewritten =>
        \A i \in DOMAIN OutLines :
            /\ (OutLines[i] # "" /\ ~StartsWith(OutLines[i], "#")) =>
                   \/ OutLines[i] = Trim(InLines[i])
                   \/ \E p \in ProxyPrefixes : StartsWith(OutLines[i], p)
            /\ (IsMediaOrKey(OutLines[i]) /\ UriMatch(OutLines[i]) # Undefined) =>
                   StartsWith(UriMatch(OutLines[i])[1], call.serverUrl \o "/")

\* the URL u is absolute: it parses without a base, to itself
IsAbsoluteUrl(u) == NewUrl(u).ok /\ Href(NewUrl(u)) = u

\* e is the percent-encoding of the absolute URL that uri resolves to
\* against the playlist URL
EncodesResolved(e, uri) ==
    LET abs == ResolveHref(uri, call.targetUrl)
    IN  /\ abs # Undefined
        /\ IsAbsoluteUrl(abs[1])
        /\ e = encodeURIComponent(abs[1])
        /\ decodeURIComponent(e) = abs
        /\ ~AnyCharIn(e, ":/?#&=+ ")

\* the directory of the first playlist URL
RootDir == "https%3A%2F%2Fa.example%2Fm%2F"

\* C10: every URI the rewrite replaces (a non-comment line, the URI
\* attribute of an #EXT-X-MEDIA or #EXT-X-KEY line) is resolved against the
\* playlist URL U to an absolute URL, and the url parameter of the proxy URL
\* is the percent-encoding of that URL; at U = https://a.example/m/root.m3u8
\* sub.m3u8 becomes S/m3u8-proxy?url=https%3A%2F%2Fa.example%2Fm%2Fsub.m3u8
\* and seg1.ts becomes S/ts-proxy?url=https%3A%2F%2Fa.example%2Fm%2Fseg1.ts
RewriteResolvesEncodes ==
    Rewritten =>
        \A i \in DOMAIN InLines :
            LET line == Trim(InLines[i])
                out == OutLines[i]
            IN  /\ (line # "" /\ ~StartsWith(line, "#") /\ out # line) =>
                       \E p \in ProxyPrefixes :
                           /\ StartsWith(out, p)
                           /\ EncodesResolved(From(out, Len(p) + 1), line)
                /\ (IsMediaOrKey(line) /\ out # line) =>
                       /\ UriMatch(line) # Undefined
                       /\ ResolveHref(UriMatch(line)[1], call.targetUrl) # Undefined
                       /\ \E p \in ProxyPrefixes :
                              Includes(out, p \o encodeURIComponent(
                                  ResolveHref(UriMatch(line)[1], call.targetUrl)[1]))
                /\ (call.targetUrl = "https://a.example/m/root.m3u8" /\ line = "sub.m3u8") =>
                       out = call.serverUrl \o "/m3u8-proxy?url=" \o RootDir \o "sub.m3u8"
                /\ (call.targetUrl = "https://a.example/m/root.m3u8" /\ line = "seg1.ts") =>
                       out = call.serverUrl \o "/ts-proxy?url=" \o RootDir \o "seg1.ts"

\* the playlist of sub.m3u8 and seg1.ts at https://a.example/m/root.m3u8 has
\* been rewritten to the two proxy URLs
RewriteResolvesEncodesWitness ==
    /\ Rewritten
    /\ call.targetUrl = "https://a.example/m/root.m3u8"
    /\ call.serverUrl = "https://px.example"
    /\ call.content = "sub.m3u8\nseg1.ts"
    /\ result[1].text =
           "https://px.example/m3u8-proxy?url=https%3A%2F%2Fa.example%2Fm%2Fsub.m3u8\n"
           \o "https://px.example/ts-proxy?url=https%3A%2F%2Fa.example%2Fm%2Fseg1.ts"

(***************************************************************************)
(* The playlist cache under any order of its calls.                        *)
(***************************************************************************)
CacheSteps == {10, 29990}

InitCache ==
    /\ ClockInit /\ MetricsInit /\ ThrottleInit /\ THROTTLE_CONFIG.maxRequests = 1
    /\ CallIdle /\ CacheInit /\ ProxyInit /\ ALLOWED_HOSTS = {}

\* setCachedPlaylist(url, content)
SetCachedPlaylist ==
    \E url \in CacheKeys, content \in CacheBodies :
        /\ playlistCache' = AfterSet(url, content)
        /\ lastSet' = [lastSet EXCEPT ![url] = Some([v |-> content, at |-> now])]
        /\ got' = NotCalled
        /\ UNCHANGED <<clockVars, metricsVars, throttleVars, callVars, proxyVars>>

\* getCachedPlaylist(url)
GetCachedPlaylist ==
    \E url \in CacheKeys :
        /\ got' = [key |-> url, value |-> getCachedPlaylist(url)]
        /\ playlistCache' = AfterGet(url)
        /\ UNCHANGED <<lastSet, clockVars, metricsVars, throttleVars, callVars, proxyVars>>

\* clearCaches(): playlistCache.flushAll()
clearCaches ==
    /\ playlistCache' = << >>
    /\ lastSet' = [k \in CacheKeys |-> Undefined]
    /\ got' = NotCalled
    /\ UNCHANGED <<clockVars, metricsVars, throttleVars, callVars, proxyVars>>

\* the check NodeCache runs every checkperiod seconds
CheckData ==
    /\ playlistCache' = AfterCheck
    /\ got' = NotCalled
    /\ UNCHANGED <<lastSet, clockVars, metricsVars, throttleVars, callVars, proxyVars>>

CacheTick ==
    /\ \E d \in CacheSteps : Tick(d)
    /\ got' = NotCalled
    /\ UNCHANGED <<playlistCache, lastSet, throttleVars, callVars, proxyVars>>

NextCache == SetCachedPlaylist \/ GetCachedPlaylist \/ clearCaches \/ CheckData \/ CacheTick

SpecCache == InitCache /\ [][NextCache]_vars

\* the latest write of the key just read, Undefined if there is none since
\* the last flush
WrittenOfGot == lastSet[got.key]

\* C5: after setCachedPlaylist(U, B), a getCachedPlaylist(U) made within the
\* TTL of 30 s, with no flush and no later write of U in between, returns
\* exactly B, whatever was set and read under other keys
CacheReadsWritten ==
    (got # NotCalled /\ WrittenOfGot # Undefined
        /\ now - WrittenOfGot[1].at < PlaylistTtlMs)
    => got.value = Some(WrittenOfGot[1].v)

\* a read within the TTL returned what was written, another key having been
\* written after it
CacheReadsWrittenWitness ==
    /\ got # NotCalled /\ WrittenOfGot # Undefined
    /\ now - WrittenOfGot[1].at = 29990
    /\ got.value = Some(WrittenOfGot[1].v)
    /\ \E k \in CacheKeys \ {got.key} :
           /\ lastSet[k] # Undefined
           /\ lastSet[k][1].at > WrittenOfGot[1].at
           /\ lastSet[k][1].v # WrittenOfGot[1].v

\* C6: getCachedPlaylist never returns an entry once the TTL has elapsed
\* since the latest setCachedPlaylist of its key, nor after clearCaches:
\* what it returns is the value of the latest write of the key since the
\* last flush, and that write is at most the TTL old (a later write of the
\* key replaces the value and restarts the TTL)
CacheNeverStale ==
    (got # NotCalled /\ got.value # Undefined)
    => /\ WrittenOfGot # Undefined
       /\ got.value[1] = WrittenOfGot[1].v
       /\ now - WrittenOfGot[1].at <= PlaylistTtlMs

\* a read found nothing although its key was written: the TTL has elapsed
CacheNeverStaleWitness ==
    /\ got # NotCalled /\ got.value = Undefined
    /\ WrittenOfGot # Undefined
    /\ now - WrittenOfGot[1].at > PlaylistTtlMs

\* C7: the number of entries of the playlist cache stays within a cap,
\* whatever number of distinct URLs are requested within one TTL: with more
\* URLs than the cap, the cache never holds them all
CacheCapped == Cardinality(DOMAIN playlistCache) < Cardinality(CacheKeys)

(***************************************************************************)
(* URL safety and normalisation (utils/urlNormalizer) and the host policy  *)
(* (utils/hostConfig).                                                     *)
(***************************************************************************)
\* application/x-www-form-urlencoded decoding of a value of the query
PlusToSpace(s) == Concat([i \in 1..Len(s) |-> IF CharAt(s, i) = "+" THEN " " ELSE CharAt(s, i)])

\* the value of one name=value pair of the query
ParamValue(pair) ==
    IF IndexOf(pair, "=") = 0 THEN ""
    ELSE PercentDecode(PlusToSpace(From(pair, IndexOf(pair, "=") + 1)))

\* the values of urlObj.searchParams.entries()
SearchParamValues(urlObj) ==
    IF urlObj.query = Undefined THEN << >>
    ELSE [i \in DOMAIN Split(urlObj.query[1], "&") |->
             ParamValue(Split(urlObj.query[1], "&")[i])]

\* the number of matches of /https?:\/\//g in s
UrlPatternMatches(s) ==
    Cardinality({i \in 1..Len(s) : \/ StartsWith(From(s, i), "http://")
                                   \/ StartsWith(From(s, i), "https://")})

\* a query value that looks like a URL with a query of its own (JSON.parse
\* throws on a text that starts with http, so only this test decides)
IsNestedUrl(value) ==
    /\ StartsWith(value, "http://") \/ StartsWith(value, "https://")
    /\ Includes(value, "?") \/ Includes(value, "&")

\* validateUrlSafety without the count of the matches of the pattern
SafetyOfParsedUncounted(urlString, urlObj) ==
    IF ~urlObj.ok THEN [valid |-> FALSE, reason |-> "URL_MALFORMED: Invalid URL"]
    ELSE IF \E i \in DOMAIN SearchParamValues(urlObj) :
                IsNestedUrl(SearchParamValues(urlObj)[i])
    THEN [valid |-> FALSE,
          reason |-> "URL_MALFORMED: Nested URL detected in query parameter"]
    ELSE [valid |-> TRUE, reason |-> ""]

\* validateUrlSafety once new URL(urlString) has returned urlObj or thrown
SafetyOfParsed(urlString, urlObj) ==
    IF ~urlObj.ok THEN [valid |-> FALSE, reason |-> "URL_MALFORMED: Invalid URL"]
    ELSE IF \E i \in DOMAIN SearchParamValues(urlObj) :
                IsNestedUrl(SearchParamValues(urlObj)[i])
    THEN [valid |-> FALSE,
          reason |-> "URL_MALFORMED: Nested URL detected in query parameter"]
    ELSE IF UrlPatternMatches(urlString) > 1
    THEN [valid |-> FALSE, reason |-> "URL_MALFORMED: Multiple URLs concatenated"]
    ELSE [valid |-> TRUE, reason |-> ""]

validateUrlSafety(urlString) ==
    IF urlString = "" THEN [valid |-> FALSE, reason |-> "URL_MALFORMED: Invalid URL input"]
    ELSE SafetyOfParsed(urlString, NewUrl(urlString))

\* normalized.substring(0, fragmentIndex)
StripFragment(s) == IF IndexOf(s, "#") = 0 THEN s ELSE SubSeq(s, 1, IndexOf(s, "#") - 1)

\* new URL(s).href, Undefined when the constructor throws
ParsedHref(s) == HrefOf(NewUrl(s))

\* new URL(decoded).href, Undefined when decodeURIComponent or the
\* constructor threw
DecodedHref(decoded) == IF decoded = Undefined THEN Undefined ELSE ParsedHref(decoded[1])

\* the first of two optional values that is defined
FirstDefined(a, b) == IF a # Undefined THEN a ELSE b

\* the three nested try blocks of normalizeUrl
NormalizedHref(normalized) ==
    FirstDefined(ParsedHref(normalized), DecodedHref(decodeURIComponent(normalized)))

\* a parsed URL of protocol http: or https:
HasHttpProtocol(urlObj) == urlObj.ok /\ Protocol(urlObj) \in {"http:", "https:"}

\* the protocol check that ends normalizeUrl
CheckProtocol(normalized) ==
    IF normalized # Undefined /\ HasHttpProtocol(NewUrl(normalized[1]))
    THEN normalized ELSE Undefined

\* normalizeUrl(urlString): the normalized URL, Undefined when it throws
normalizeUrl(urlString) ==
    IF urlString = "" THEN Undefined
    ELSE CheckProtocol(NormalizedHref(StripFragment(Trim(urlString))))

\* urlObj.hostname, Undefined for the null of the catch
HostnameOf(urlObj) == IF urlObj.ok THEN Some(Hostname(urlObj)) ELSE Undefined

extractHostname(urlString) == HostnameOf(NewUrl(urlString))

\* the hostname alone, without the suffixes that follow its dots
DomainSuffixesExact(hostname) == {hostname}

\* parts.slice(i).join('.') for every i
DomainSuffixes(hostname) ==
    {Join(SubSeq(Split(hostname, "."), i, Len(Split(hostname, "."))), ".") :
        i \in 1..Len(Split(hostname, "."))}

isHostAllowed(hostname) ==
    /\ Truthy(hostname)
    /\ ALLOWED_HOSTS = {} \/ DomainSuffixes(hostname[1]) \cap ALLOWED_HOSTS # {}

isValidUrl(urlString) == HasHttpProtocol(NewUrl(urlString))

(***************************************************************************)
(* The proxy routes (createProxyRoutes) and proxyM3U8, proxyTs.  A route   *)
(* runs up to its first await in one step; requests are served one at a    *)
(* time.                                                                   *)
(***************************************************************************)
\* most requests the routes receive
MaxRequests == 2

\* the url (link) parameter of the requests, Undefined when it is missing
RequestTargets ==
    { Undefined,
      Some("https://CDN.ok.example/a.m3u8"),
      Some("https://bad.example/x.m3u8"),
      Some("https://ok.example/p?u=https://e.example/?q"),
      Some("ftp://ok.example/a.m3u8") }

\* the allowlists the server is deployed with
Allowlists == {{}, {"ok.example"}}

\* the statuses the upstream answers with, and the playlists it sends
UpstreamStatuses == {200, 401, 403, 404, 500}

UpstreamBodies == {"", "seg1.ts", "#EXT-X-KEY:METHOD=AES-128,URI=\"http://\""}

\* getServerUrl(req) for the requests of the model: Host px.example behind
\* a proxy that sets x-forwarded-proto to https
ServerUrl == "https://px.example"

Init ==
    /\ ClockInit /\ MetricsInit /\ ThrottleInit /\ THROTTLE_CONFIG.maxRequests = 1
    /\ CallIdle /\ CacheInit /\ ProxyInit
    /\ ALLOWED_HOSTS \in Allowlists

\* the outcome of the checks a route makes on its target: the status and
\* code it rejects with, or the URL it hands on
Rejected(status, code) == [status |-> status, code |-> code, url |-> Undefined]

Accepted(url) == [status |-> 0, code |-> "", url |-> Some(url)]

\* what the routes compute from a target before any state is read:
\* validateUrlSafety, normalizeUrl and extractHostname of the normalized URL
\* for handleM3U8Proxy and /ts-proxy, new URL(targetUrl).href and isValidUrl
\* for /proxy/hls
HostnameOfNormalized(normalizedUrl) ==
    IF normalizedUrl = Undefined THEN Undefined ELSE extractHostname(normalizedUrl[1])

HlsNormalized(targetUrl) == FirstDefined(ParsedHref(targetUrl), Some(targetUrl))[1]

TargetFacts ==
    [targetUrl \in RequestTargets \ {Undefined} |->
        [safety |-> validateUrlSafety(targetUrl[1]),
         normalizedUrl |-> normalizeUrl(targetUrl[1]),
         hostname |-> HostnameOfNormalized(normalizeUrl(targetUrl[1])),
         hlsUrl |-> HlsNormalized(targetUrl[1]),
         hlsValid |-> isValidUrl(HlsNormalized(targetUrl[1]))]]

\* the checks of handleM3U8Proxy and of /ts-proxy
TargetCheck(targetUrl) ==
    IF ~Truthy(targetUrl) THEN Rejected(400, "URL_MALFORMED")
    ELSE IF ~TargetFacts[targetUrl].safety.valid THEN Rejected(400, "URL_MALFORMED")
    ELSE IF TargetFacts[targetUrl].normalizedUrl = Undefined
    THEN Rejected(400, "URL_MALFORMED")
    ELSE IF ~isHostAllowed(TargetFacts[targetUrl].hostname)
    THEN Rejected(403, "HOST_NOT_ALLOWED")
    ELSE Accepted(TargetFacts[targetUrl].normalizedUrl[1])

\* the checks of /proxy/hls
HlsCheck(targetUrl) ==
    IF ~Truthy(targetUrl) THEN Rejected(400, "")
    ELSE IF ~TargetFacts[targetUrl].hlsValid THEN Rejected(400, "")
    ELSE Accepted(TargetFacts[targetUrl].hlsUrl)

\* a request arrives at a route
Receive(route, targetUrl, check) ==
    /\ inflight = Idle
    /\ received < MaxRequests
    /\ received' = received + 1
    /\ request' = [route |-> route, target |-> targetUrl, proxied |-> check.url]
    /\ UNCHANGED <<ALLOWED_HOSTS, lastSet, got, clockVars, metricsVars, throttleVars, callVars>>

\* the route answers without calling its proxy function
Reject(check) ==
    /\ response' = [status |-> check.status, code |-> check.code, upstream |-> 0,
                    xcache |-> "", body |-> ""]
    /\ inflight' = Idle
    /\ UNCHANGED playlistCache

\* proxyM3U8 up to its await of fetch
proxyM3U8(route, targetUrl) ==
    /\ playlistCache' = AfterGet(targetUrl)
    /\ IF Truthy(getCachedPlaylist(targetUrl))
       THEN /\ response' = [status |-> 200, code |-> "", upstream |-> 0, xcache |-> "HIT",
                            body |-> getCachedPlaylist(targetUrl)[1]]
            /\ inflight' = Idle
       ELSE /\ response' = NoResponse
            /\ inflight' = [pc |-> "fetch", route |-> route, url |-> targetUrl]

\* proxyTs up to its await of fetch
proxyTs(route, targetUrl) ==
    /\ response' = NoResponse
    /\ inflight' = [pc |-> "fetch", route |-> route, url |-> targetUrl]
    /\ UNCHANGED playlistCache

M3U8Route(targetUrl, check) ==
    /\ Receive("/m3u8-proxy", targetUrl, check)
    /\ IF check.url = Undefined THEN Reject(check)
       ELSE proxyM3U8("/m3u8-proxy", check.url[1])

\* GET /m3u8-proxy
handleM3U8Proxy == \E targetUrl \in RequestTargets : M3U8Route(targetUrl, TargetCheck(targetUrl))

TsRoute(targetUrl, check) ==
    /\ Receive("/ts-proxy", targetUrl, check)
    /\ IF check.url = Undefined THEN Reject(check)
       ELSE proxyTs("/ts-proxy", check.url[1])

\* GET /ts-proxy
GetTsProxy == \E targetUrl \in RequestTargets : TsRoute(targetUrl, TargetCheck(targetUrl))

HlsRoute(targetUrl, check) ==
    /\ Receive("/proxy/hls", targetUrl, check)
    /\ IF check.url = Undefined THEN Reject(check)
       ELSE proxyM3U8("/proxy/hls", check.url[1])

\* GET /proxy/hls
GetProxyHls == \E targetUrl \in RequestTargets : HlsRoute(targetUrl, HlsCheck(targetUrl))

\* the answer of proxyM3U8 and of proxyTs to a response that is not ok
UpstreamError(route, status) ==
    [status |-> IF status \in {401, 403} THEN 403 ELSE status,
     code |-> IF route = "/ts-proxy" THEN ""
              ELSE IF status = 403 THEN "UPSTREAM_403"
              ELSE IF status = 404 THEN "NOT_FOUND" ELSE "ERROR",
     upstream |-> status, xcache |-> "", body |-> ""]

\* fetch resolves with a response of some status
FetchResolves ==
    \E status \in UpstreamStatuses :
        /\ inflight.pc = "fetch"
        /\ IF status # 200
           THEN response' = UpstreamError(inflight.route, status) /\ inflight' = Idle
           ELSE IF inflight.route = "/ts-proxy"
           THEN /\ response' = [status |-> 200, code |-> "", upstream |-> status,
                                xcache |-> "", body |-> ""]
                /\ inflight' = Idle
           ELSE inflight' = [inflight EXCEPT !.pc = "text"] /\ UNCHANGED response
        /\ UNCHANGED <<ALLOWED_HOSTS, received, request, cacheVars, clockVars, metricsVars,
                       throttleVars, callVars>>

\* fetch rejects: the upstream refuses the connection
FetchRejects ==
    /\ inflight.pc = "fetch"
    /\ response' = [status |-> 502,
                    code |-> IF inflight.route = "/ts-proxy" THEN "" ELSE "BAD_GATEWAY",
                    upstream |-> 0, xcache |-> "", body |-> ""]
    /\ inflight' = Idle
    /\ UNCHANGED <<ALLOWED_HOSTS, received, request, cacheVars, clockVars, metricsVars,
                   throttleVars, callVars>>

\* proxyM3U8 after the rewrite: an error of the rewrite is answered with 500,
\* else the playlist is cached and sent
SendProcessed(processed) ==
    IF processed.threw
    THEN /\ response' = [status |-> 500, code |-> "ERROR", upstream |-> 200,
                         xcache |-> "", body |-> ""]
         /\ UNCHANGED playlistCache
    ELSE /\ playlistCache' = AfterSet(inflight.url, processed.text)
         /\ response' = [status |-> 200, code |-> "", upstream |-> 200, xcache |-> "MISS",
                         body |-> processed.text]

\* response.text() resolves with the playlist of the upstream
TextResolves ==
    \E m3u8Content \in UpstreamBodies :
        /\ inflight.pc = "text"
        /\ SendProcessed(ProcessManifest(m3u8Content, inflight.url, ServerUrl))
        /\ inflight' = Idle
        /\ UNCHANGED <<ALLOWED_HOSTS, received, request, lastSet, got, clockVars, metricsVars,
                       throttleVars, callVars>>

\* time passes, long enough for the cached playlists to expire
Elapse ==
    /\ Tick(PlaylistTtlMs + 1)
    /\ UNCHANGED <<cacheVars, proxyVars, throttleVars, callVars>>

Next ==
    \/ handleM3U8Proxy \/ GetTsProxy \/ GetProxyHls
    \/ FetchResolves \/ FetchRejects \/ TextResolves
    \/ clearCaches \/ CheckData \/ Elapse

Spec == Init /\ [][Next]_vars

\* the step that receives a request
Receives == received' = received + 1

\* the target passes validateUrlSafety and normalizeUrl and its host passes
\* isHostAllowed
PassesChecks(targetUrl) ==
    /\ Truthy(targetUrl)
    /\ validateUrlSafety(targetUrl[1]).valid
    /\ normalizeUrl(targetUrl[1]) # Undefined
    /\ isHostAllowed(HostnameOfNormalized(normalizeUrl(targetUrl[1])))

\* the target is a URL whose host is outside a non-empty allowlist
OutsideAllowlist(targetUrl) ==
    /\ ALLOWED_HOSTS # {}
    /\ Truthy(targetUrl)
    /\ extractHostname(targetUrl[1]) # Undefined
    /\ ~isHostAllowed(extractHostname(targetUrl[1]))

\* C4: no upstream fetch is issued for a target that has not passed the
\* safety validation, the normalization and the host allowlist check, and
\* with a non-empty allowlist a request whose target host is outside it is
\* answered 403 HOST_NOT_ALLOWED without any fetch
UpstreamGuarded ==
    [][Receives =>
          /\ inflight' # Idle => PassesChecks(request'.target)
          /\ OutsideAllowlist(request'.target) =>
                /\ inflight' = Idle
                /\ response'.status = 403
                /\ response'.code = "HOST_NOT_ALLOWED"]_vars

\* the same on the routes /m3u8-proxy and /ts-proxy only
UpstreamGuardedChecked ==
    [][(Receives /\ request'.route # "/proxy/hls") =>
          /\ inflight' # Idle => PassesChecks(request'.target)
          /\ OutsideAllowlist(request'.target) =>
                /\ inflight' = Idle
                /\ response'.status = 403
                /\ response'.code = "HOST_NOT_ALLOWED"]_vars

\* the cache holds an entry for url that has not expired
HoldsFresh(url) == url \in DOMAIN playlistCache /\ ~IsExpired(playlistCache[url], now)

\* the step in which a route calls proxyM3U8
CallsProxyM3U8 ==
    /\ Receives
    /\ request'.route # "/ts-proxy"
    /\ request'.proxied # Undefined

\* the step in which proxyM3U8 has the playlist of a 200 upstream response
GotPlaylist == inflight.pc = "text" /\ inflight' = Idle

\* C8: proxyM3U8 answers a target whose rewritten playlist is cached and not
\* expired with 200, X-Cache HIT and the cached body without a fetch;
\* otherwise it issues one upstream GET, and on a 200 upstream response it
\* stores the rewritten playlist under the target and answers 200 with
\* X-Cache MISS and that playlist
ProxyM3U8CacheProtocol ==
    [][/\ CallsProxyM3U8 =>
            IF HoldsFresh(request'.proxied[1])
            THEN /\ inflight' = Idle
                 /\ response' = [status |-> 200, code |-> "", upstream |-> 0, xcache |-> "HIT",
                                 body |-> playlistCache[request'.proxied[1]].v]
            ELSE inflight' = [pc |-> "fetch", route |-> request'.route,
                              url |-> request'.proxied[1]]
       /\ GotPlaylist =>
            /\ response'.status = 200
            /\ response'.xcache = "MISS"
            /\ inflight.url \in DOMAIN playlistCache'
            /\ playlistCache'[inflight.url] = Wrap(response'.body, now)]_vars

\* the URI attribute of the i-th line of the output is proxyUrl
RoutedUri(i, proxyUrl) == UriMatch(OutLines[i]) = Some(proxyUrl)

\* C11: the URI attribute of every #EXT-X-KEY line is replaced by
\* S/ts-proxy?url=<encoded resolved URI> and that of every #EXT-X-MEDIA line
\* by S/m3u8-proxy?url=<encoded resolved URI>; at
\* https://a.example/m/root.m3u8 the line #EXT-X-KEY:METHOD=AES-128,URI="k.key"
\* becomes URI="S/ts-proxy?url=https%3A%2F%2Fa.example%2Fm%2Fk.key"
KeyMediaRouting ==
    Rewritten =>
        \A i \in DOMAIN InLines :
            LET line == Trim(InLines[i])
                uri == UriMatch(line)
            IN  /\ (StartsWith(line, "#EXT-X-KEY:") /\ uri # Undefined) =>
                       RoutedUri(i, TsProxyUrl(call.serverUrl,
                                               ResolveHref(uri[1], call.targetUrl)[1]))
                /\ (StartsWith(line, "#EXT-X-MEDIA:") /\ uri # Undefined) =>
                       RoutedUri(i, M3u8ProxyUrl(call.serverUrl,
                                                 ResolveHref(uri[1], call.targetUrl)[1]))
                /\ (line = "#EXT-X-KEY:METHOD=AES-128,URI=\"k.key\""
                        /\ call.targetUrl = "https://a.example/m/root.m3u8") =>
                       OutLines[i] = "#EXT-X-KEY:METHOD=AES-128,URI=\"" \o call.serverUrl
                                     \o "/ts-proxy?url=" \o RootDir \o "k.key\""

\* text begins with S/m3u8-proxy?url= or with S/ts-proxy?url=
IsProxyUrl(text) == \E p \in ProxyPrefixes : StartsWith(text, p)

\* C12: in the rewritten manifest the value of every URI="..." attribute, on
\* whatever tag line it occurs (#EXT-X-MAP included), and every non-comment
\* line is a proxy URL S/m3u8-proxy?url=... or S/ts-proxy?url=...
EveryUriProxied ==
    Rewritten =>
        \A i \in DOMAIN InLines :
            LET line == Trim(InLines[i])
            IN  /\ (StartsWith(line, "#") /\ UriMatch(line) # Undefined) =>
                       /\ UriMatch(OutLines[i]) # Undefined
                       /\ IsProxyUrl(UriMatch(OutLines[i])[1])
                /\ (line # "" /\ ~StartsWith(line, "#")) => IsProxyUrl(OutLines[i])

(***************************************************************************)
(* The manifest rewrite of a request that carries custom headers.          *)
(***************************************************************************)
\* the headers objects of the requests: none, a Referer, a Referer and an
\* Origin; an object is the sequence of its name-value pairs
HeaderSets ==
    { << >>,
      << <<"Referer", "https://ref.example/">> >>,
      << <<"Referer", "https://ref.example/a\"b">>, <<"Origin", "https://ref.example">> >> }

\* the one-line playlists
HeaderPlaylists == {ManifestLines[i] : i \in DOMAIN ManifestLines}

\* a JSON string literal
JsonString(s) ==
    "\"" \o Concat([i \in 1..Len(s) |->
                      IF CharAt(s, i) \in {"\"", "\\"} THEN "\\" \o CharAt(s, i)
                      ELSE CharAt(s, i)]) \o "\""

\* JSON.stringify of a headers object
JsonStringify(headers) ==
    "{" \o Join([i \in DOMAIN headers |->
                    JsonString(headers[i][1]) \o ":" \o JsonString(headers[i][2])], ",")
        \o "}"

InitRewriteHeaders ==
    /\ ClockInit /\ MetricsInit /\ ThrottleInit /\ CacheInit /\ ProxyInit /\ ALLOWED_HOSTS = {}
    /\ THROTTLE_CONFIG.maxRequests = 1
    /\ call \in [fn : {"rewrite"}, content : HeaderPlaylists, targetUrl : TargetUrls,
                 serverUrl : ServerUrls, headers : HeaderSets]
    /\ result = Undefined

NextRewriteHeaders == CallProcessManifest

SpecRewriteHeaders == InitRewriteHeaders /\ [][NextRewriteHeaders]_vars

\* the parameter that would carry the headers of the call
HeadersParam == "&headers=" \o encodeURIComponent(JsonStringify(call.headers))

\* C13: when the caller supplied custom headers, every proxy URL written
\* into the rewritten manifest (a rewritten line, a rewritten URI attribute)
\* ends with &headers=<percent-encoded JSON of the headers>
HeadersPropagated ==
    (Rewritten /\ call.headers # << >>) =>
        \A i \in DOMAIN OutLines :
            /\ IsProxyUrl(OutLines[i]) => EndsWith(OutLines[i], HeadersParam)
            /\ (StartsWith(OutLines[i], "#") /\ UriMatch(OutLines[i]) # Undefined
                    /\ IsProxyUrl(UriMatch(OutLines[i])[1])) =>
                   EndsWith(UriMatch(OutLines[i])[1], HeadersParam)

\* the i-th line of the input is no comment and has been rewritten
SegmentRewritten(i) ==
    /\ Trim(InLines[i]) # ""
    /\ ~StartsWith(Trim(InLines[i]), "#")
    /\ OutLines[i] # Trim(InLines[i])

\* the path of the URL the line resolves to against the playlist URL
ResolvedPath(line) == Pathname(NewUrl(ResolveHref(line, call.targetUrl)[1]))

\* C14 as the specification states it: a rewritten non-comment line goes to
\* S/m3u8-proxy when the path of the resolved URL or the line mentions m3u8,
\* and to S/ts-proxy otherwise
SegmentRouteByPathOrLine ==
    Rewritten =>
        \A i \in DOMAIN InLines :
            SegmentRewritten(i) =>
                StartsWith(OutLines[i],
                           IF Includes(ResolvedPath(Trim(InLines[i])), "m3u8")
                                \/ Includes(Trim(InLines[i]), "m3u8")
                           THEN call.serverUrl \o "/m3u8-proxy?url="
                           ELSE call.serverUrl \o "/ts-proxy?url=")

\* C14: a rewritten non-comment line goes to S/m3u8-proxy exactly when the
\* line itself (trimmed) mentions m3u8, and to S/ts-proxy otherwise; seg1.ts
\* under https://a.example/m3u8/v1/list goes to S/ts-proxy
SegmentRouteByLine ==
    Rewritten =>
        \A i \in DOMAIN InLines :
            SegmentRewritten(i) =>
                StartsWith(OutLines[i],
                           IF Includes(Trim(InLines[i]), "m3u8")
                           THEN call.serverUrl \o "/m3u8-proxy?url="
                           ELSE call.serverUrl \o "/ts-proxy?url=")

\* seg1.ts of the playlist https://a.example/m3u8/v1/list has been routed to
\* the segment proxy
SegmentRouteByLineWitness ==
    /\ Rewritten
    /\ call.targetUrl = "https://a.example/m3u8/v1/list"
    /\ call.serverUrl = "https://px.example"
    /\ call.content = "seg1.ts"
    /\ result[1].text =
           "https://px.example/ts-proxy?url=https%3A%2F%2Fa.example%2Fm3u8%2Fv1%2Fseg1.ts"

RECURSIVE Decimal(_)
\* the decimal numeral of a natural number
Decimal(n) ==
    IF n < 10 THEN SubSeq("0123456789", n + 1, n + 1)
    ELSE Decimal(n \div 10) \o SubSeq("0123456789", (n % 10) + 1, (n % 10) + 1)

\* the latest request went to the manifest proxy and was answered from an
\* upstream response that is not ok
ManifestUpstreamFailed ==
    /\ request.route \in {"/m3u8-proxy", "/proxy/hls"}
    /\ response.upstream # 0
    /\ ~(response.upstream \in 200..299)

\* C15: a non-OK upstream status n of the manifest fetch is answered with
\* HTTP 403 and body code UPSTREAM_403 if n is 401 or 403, with HTTP 404 and
\* body code NOT_FOUND if n is 404, and otherwise with HTTP n and body code
\* UPSTREAM_<n>
UpstreamStatusSurfaced ==
    ManifestUpstreamFailed =>
        IF response.upstream \in {401, 403}
        THEN response.status = 403 /\ response.code = "UPSTREAM_403"
        ELSE IF response.upstream = 404
        THEN response.status = 404 /\ response.code = "NOT_FOUND"
        ELSE /\ response.status = response.upstream
             /\ response.code = "UPSTREAM_" \o Decimal(response.upstream)

(***************************************************************************)
(* The segment proxy (proxyTs) on its own: the headers of its upstream     *)
(* fetch and the status and headers of its response.  A headers object is  *)
(* a function from names to values.                                        *)
(***************************************************************************)
DEFAULT_USER_AGENT ==
    "Mozilla/5.0 (Windows NT 10.0; Win64; x64) AppleWebKit/537.36 (KHTML, like Gecko) Chrome/131.0.0.0 Safari/537.36"

\* { ...a, ...b }
Spread(a, b) == b @@ a

\* the object of a sequence of name-value pairs
HeaderObject(pairs) ==
    [name \in {pairs[i][1] : i \in DOMAIN pairs} |->
        pairs[CHOOSE i \in DOMAIN pairs :
                  /\ pairs[i][1] = name
                  /\ \A j \in DOMAIN pairs : j > i => pairs[j][1] # name][2]]

\* req.headers.range of the requests: no Range header, an empty one, ranges
RangeValues == {Undefined, Some(""), Some("bytes=0-1023"), Some("bytes=500-")}

\* the headers of the upstream fetch without the Range of the client
FetchHeadersNoRange(headers, range) == Spread("User-Agent" :> DEFAULT_USER_AGENT, headers)

\* the headers of the upstream fetch
FetchHeaders(headers, range) ==
    IF Truthy(range)
    THEN Spread(Spread("User-Agent" :> DEFAULT_USER_AGENT, headers), "Range" :> range[1])
    ELSE Spread("User-Agent" :> DEFAULT_USER_AGENT, headers)

\* the responses of the upstream: a status and, each supplied or not, the
\* headers content-type, content-length, content-range and accept-ranges
TsUpstreamStatuses == {200, 204, 206, 404}

UpstreamHeaderValues ==
    [ct : {Undefined, Some("video/mp4")},
     cl : {Undefined, Some("1024")},
     cr : {Undefined, Some(""), Some("bytes 0-1023/5000")},
     ar : {Undefined, Some("bytes")}]

\* response.headers.get(name) || fallback
GetOr(value, fallback) == IF Truthy(value) THEN value[1] ELSE fallback

\* the header name: value when response.headers.get gave a truthy value
SetIf(name, value) == IF Truthy(value) THEN name :> value[1] ELSE << >>

\* the five headers setCorsHeaders sets
CorsHeaders ==
    [name \in {"Access-Control-Allow-Origin", "Access-Control-Allow-Methods",
               "Access-Control-Allow-Headers", "Access-Control-Expose-Headers",
               "Access-Control-Allow-Credentials"} |->
        CASE name = "Access-Control-Allow-Origin" -> "*"
          [] name = "Access-Control-Allow-Methods" -> "GET, HEAD, OPTIONS"
          [] name = "Access-Control-Allow-Headers" ->
                 "Content-Type, Range, Accept, Origin, Referer, User-Agent, Authorization, X-Requested-With"
          [] name = "Access-Control-Expose-Headers" ->
                 "Content-Length, Content-Range, Accept-Ranges, Content-Type"
          [] name = "Access-Control-Allow-Credentials" -> "false"]

\* what proxyTs writes for an upstream response
TsResponse(status, h) ==
    IF ~(status \in 200..299)
    THEN [status |-> IF status \in {401, 403} THEN 403 ELSE status,
          headers |-> Spread(CorsHeaders, "Content-Type" :> "application/json")]
    ELSE [status |-> IF status = 206 THEN 206 ELSE 200,
          headers |-> Spread(Spread(Spread(Spread(CorsHeaders,
                          "Content-Type" :> GetOr(h.ct, "video/mp2t")),
                          SetIf("Content-Length", h.cl)),
                          SetIf("Content-Range", h.cr)),
                          SetIf("Accept-Ranges", h.ar))]

InitTs ==
    /\ ClockInit /\ MetricsInit /\ ThrottleInit /\ CacheInit /\ ProxyInit /\ ALLOWED_HOSTS = {}
    /\ THROTTLE_CONFIG.maxRequests = 1
    /\ call \in [fn : {"proxyTs"}, range : RangeValues,
                 headers : {HeaderObject(pairs) : pairs \in HeaderSets}]
    /\ result = Undefined

\* proxyTs up to its await of fetch
CallProxyTs ==
    /\ call.fn = "proxyTs"
    /\ result = Undefined
    /\ result' = Some([pc |-> "fetch", fetchHeaders |-> FetchHeaders(call.headers, call.range)])
    /\ UNCHANGED <<call, clockVars, metricsVars, throttleVars, cacheVars, proxyVars>>

\* fetch resolves and proxyTs answers
TsFetchResolves ==
    \E status \in TsUpstreamStatuses, h \in UpstreamHeaderValues :
        /\ call.fn = "proxyTs"
        /\ result # Undefined /\ result[1].pc = "fetch"
        /\ result' = Some([pc |-> "done", fetchHeaders |-> result[1].fetchHeaders,
                           upstream |-> [status |-> status, headers |-> h],
                           res |-> TsResponse(status, h)])
        /\ UNCHANGED <<call, clockVars, metricsVars, throttleVars, cacheVars, proxyVars>>

NextTs == CallProxyTs \/ TsFetchResolves

SpecTs == InitTs /\ [][NextTs]_vars

\* proxyTs has issued its fetch
TsFetched == call.fn = "proxyTs" /\ result # Undefined

\* proxyTs has answered an ok upstream response
TsAnsweredOk ==
    /\ TsFetched
    /\ result[1].pc = "done"
    /\ result[1].upstream.status \in 200..299

\* the response header name equals the upstream's value when the upstream
\* supplied one (a non-empty value), and is not set otherwise
SameAsUpstream(name, value) ==
    IF Truthy(value)
    THEN name \in DOMAIN result[1].res.headers /\ result[1].res.headers[name] = value[1]
    ELSE name \notin DOMAIN result[1].res.headers

\* C16: proxyTs forwards the Range header of the client unchanged to the
\* upstream when the client sent one (a non-empty value) and adds none
\* otherwise; the response status is 206 exactly when the upstream status is
\* 206 and 200 for every other ok upstream status, and Content-Range,
\* Content-Length and Accept-Ranges of the response are the upstream's
\* whenever the upstream supplied them
TsRangePassThrough ==
    /\ TsFetched =>
          IF Truthy(call.range)
          THEN /\ "Range" \in DOMAIN result[1].fetchHeaders
               /\ result[1].fetchHeaders["Range"] = call.range[1]
          ELSE "Range" \notin DOMAIN result[1].fetchHeaders
    /\ TsAnsweredOk =>
          /\ result[1].res.status = 206 <=> result[1].upstream.status = 206
          /\ result[1].res.status \in {200, 206}
          /\ SameAsUpstream("Content-Range", result[1].upstream.headers.cr)
          /\ SameAsUpstream("Content-Length", result[1].upstream.headers.cl)
          /\ SameAsUpstream("Accept-Ranges", result[1].upstream.headers.ar)

\* the client sent Range: bytes=0-1023, the upstream answered 206 with
\* Content-Range: bytes 0-1023/5000, and the response is 206 with that
\* Content-Range
TsRangePassThroughWitness ==
    /\ TsAnsweredOk
    /\ call.range = Some("bytes=0-1023")
    /\ result[1].fetchHeaders["Range"] = "bytes=0-1023"
    /\ result[1].upstream.status = 206
    /\ result[1].upstream.headers.cr = Some("bytes 0-1023/5000")
    /\ result[1].res.status = 206
    /\ result[1].res.headers["Content-Range"] = "bytes 0-1023/5000"

(***************************************************************************)
(* The request dispatcher: for every endpoint the CORS step (handleCors),  *)
(* then the throttler, then the route.  The order of the three is the      *)
(* specification's (section 4.9); the steps themselves are the code's.     *)
(***************************************************************************)
\* the headers handleCors sets, without Access-Control-Max-Age
HandleCorsHeadersNoMaxAge == CorsHeaders

\* the six headers handleCors sets
HandleCorsHeaders == Spread(CorsHeaders, "Access-Control-Max-Age" :> "86400")

\* the methods of the requests
Methods == {"GET", "OPTIONS"}

\* the statuses the routes answer with
RouteStatuses == {200, 400, 500}

\* the requests the dispatcher sees: one behind a forwarding proxy, one direct
DispatchRequests ==
    { [ip |-> Undefined, xff |-> Some("a, b"), xRealIp |-> Some("b"), remote |-> Some("p")],
      [ip |-> Some("p"), xff |-> Undefined, xRealIp |-> Undefined, remote |-> Some("p")] }

\* the window of the throttler passes
DispatchTick == Tick(WindowMs) /\ UNCHANGED <<throttleVars, callVars, cacheVars, proxyVars>>

\* no request is being dispatched
DispatchIdle == call.fn = "none" \/ (call.fn = "dispatch" /\ call.done)

InitDispatch ==
    /\ ClockInit /\ MetricsInit /\ ThrottleInit /\ CallIdle /\ CacheInit /\ ProxyInit
    /\ ALLOWED_HOSTS = {}

\* a request arrives: handleCors sets its headers on the response and
\* answers a preflight with 204
Arrive ==
    \E method \in Methods, req \in DispatchRequests :
        /\ DispatchIdle
        /\ call' = [fn |-> "dispatch", method |-> method, req |-> req,
                    done |-> method = "OPTIONS"]
        /\ result' = Some([status |-> IF method = "OPTIONS" THEN 204 ELSE 0,
                           headers |-> HandleCorsHeaders])
        /\ throttleRes' = [req |-> Undefined, ip |-> "", status |-> 0, retryAfter |-> 0]
        /\ UNCHANGED <<THROTTLE_CONFIG, requestTimestamps, clockVars, metricsVars, cacheVars, proxyVars>>

\* the throttler sees the request: it answers 429 or calls next()
DispatchThrottle ==
    /\ call.fn = "dispatch" /\ ~call.done
    /\ throttleRes.req = Undefined
    /\ throttleMiddleware(call.req)

\* the request has passed the throttler and no route has answered it yet
AtRoute ==
    /\ call.fn = "dispatch" /\ ~call.done
    /\ throttleRes.req # Undefined
    /\ throttleRes.status = 0

\* the 429 of the throttler ends the request
DispatchThrottled ==
    /\ call.fn = "dispatch" /\ ~call.done
    /\ throttleRes.status = 429
    /\ call' = [call EXCEPT !.done = TRUE]
    /\ result' = Some([result[1] EXCEPT !.status = 429])
    /\ UNCHANGED <<throttleVars, clockVars, metricsVars, cacheVars, proxyVars>>

\* the route calls handleCors and answers after setCorsHeaders
DispatchRoute ==
    \E status \in RouteStatuses :
        /\ AtRoute
        /\ call' = [call EXCEPT !.done = TRUE]
        /\ result' = Some([status |-> status,
                           headers |-> Spread(Spread(result[1].headers, HandleCorsHeaders),
                                              CorsHeaders)])
        /\ UNCHANGED <<throttleVars, clockVars, metricsVars, cacheVars, proxyVars>>

NextDispatch ==
    Arrive \/ DispatchThrottle \/ DispatchThrottled \/ DispatchRoute \/ DispatchTick

SpecDispatch == InitDispatch /\ [][NextDispatch]_vars

\* a response has been sent
ResponseSent == call.fn = "dispatch" /\ call.done

UpstreamDeadlineMs == 55000

\* const timeout = 60000
RequestDeadlineMs == 60000

\* the steps of the clock: up to the upstream deadline, and from there to the
\* request deadline
DeadlineSteps == {UpstreamDeadlineMs, RequestDeadlineMs - UpstreamDeadlineMs}

DeadlineRoutes == {"/m3u8-proxy", "/ts-proxy", "/proxy/hls"}

\* the statuses of the upstream response
DeadlineStatuses == {200, 404}

NotSent == [status |-> 0, code |-> "", at |-> 0]

InitDeadline ==
    /\ ClockInit /\ MetricsInit /\ ThrottleInit /\ CallIdle /\ CacheInit
    /\ ALLOWED_HOSTS = {}
    /\ received = 0
    /\ request = [route |-> "", start |-> 0, connected |-> FALSE]
    /\ inflight = [pc |-> "idle", abortTimer |-> FALSE, routeTimer |-> FALSE,
                   aborted |-> FALSE, closedDuring |-> "", raised |-> ""]
    /\ response = NotSent

\* res.headersSent
HeadersSent == response.status # 0

\* a response written now; nothing is written once the headers are sent
Send(status, code) ==
    IF HeadersSent THEN response ELSE [status |-> status, code |-> code, at |-> now]

\* res.setHeader and res.writeHead throw ERR_HTTP_HEADERS_SENT once the
\* headers are sent: setCorsHeaders(res), the first statement of every answer
\* of proxyM3U8 and proxyTs and of their catch blocks, throws there, so that
\* the promise of the proxy rejects
ProxyRejects(headersSent) == headersSent

\* a catch of a route that wrote its answer whatever the state of the response
RouteCatchWritesUnguarded(headersSent) == TRUE

\* the catch of the route around the awaited proxy: if (!res.headersSent)
RouteCatchWrites(headersSent) == ~headersSent

\* what becomes of the exception of an answer attempted by a proxy: none is
\* raised, the catch of the route takes it and writes nothing, or the catch
\* calls res.writeHead, which throws out of the handler
Raised(headersSent) ==
    IF ~ProxyRejects(headersSent) THEN ""
    ELSE IF RouteCatchWrites(headersSent) THEN "escaped"
    ELSE "caught"

\* the route timer, armed by GET /proxy/hls only
ArmsRouteTimer(route) == route = "/proxy/hls"

\* the routes call proxyM3U8 or proxyTs, which arm the abort timer and fetch
StartRequest(route) ==
    /\ inflight.pc = "idle"
    /\ received = 0
    /\ received' = 1
    /\ request' = [route |-> route, start |-> now, connected |-> TRUE]
    /\ inflight' = [pc |-> "fetch", abortTimer |-> TRUE,
                    routeTimer |-> ArmsRouteTimer(route),
                    aborted |-> FALSE, closedDuring |-> "", raised |-> ""]
    /\ response' = NotSent
    /\ UNCHANGED <<ALLOWED_HOSTS, throttleVars, clockVars, metricsVars, callVars, cacheVars>>

\* the code of the body of a non-OK upstream response
NotOkCode(route, status) ==
    IF route = "/ts-proxy" THEN ""
    ELSE IF status = 403 THEN "UPSTREAM_403"
    ELSE IF status = 404 THEN "NOT_FOUND"
    ELSE "ERROR"

\* fetch resolves: the upstream has sent its headers; the abort timer is
\* cleared; proxyTs answers, proxyM3U8 answers a non-OK status and otherwise
\* awaits response.text()
UpstreamResponds(status) ==
    LET awaitsText == request.route # "/ts-proxy" /\ status = 200 IN
    /\ inflight.pc = "fetch"
    /\ inflight' = [inflight EXCEPT !.pc = IF awaitsText THEN "text" ELSE "done",
                                    !.abortTimer = FALSE,
                                    !.routeTimer = awaitsText /\ inflight.routeTimer,
                                    !.raised = IF awaitsText THEN "" ELSE Raised(HeadersSent)]
    /\ response' = IF awaitsText THEN response
                   ELSE Send(status, IF status = 200 THEN "" ELSE NotOkCode(request.route, status))
    /\ UNCHANGED <<ALLOWED_HOSTS, received, request, throttleVars, clockVars, metricsVars, callVars, cacheVars>>

\* response.text() resolves: the manifest is written
BodyArrives ==
    /\ inflight.pc = "text"
    /\ inflight' = [inflight EXCEPT !.pc = "done", !.routeTimer = FALSE,
                                    !.raised = Raised(HeadersSent)]
    /\ response' = Send(200, "")
    /\ UNCHANGED <<ALLOWED_HOSTS, received, request, throttleVars, clockVars, metricsVars, callVars, cacheVars>>

\* response.text() rejects, the connection of the upstream lost: the catch of
\* proxyM3U8 answers 500
BodyFails ==
    /\ inflight.pc = "text"
    /\ inflight' = [inflight EXCEPT !.pc = "done", !.routeTimer = FALSE,
                                    !.raised = Raised(HeadersSent)]
    /\ response' = Send(500, "ERROR")
    /\ UNCHANGED <<ALLOWED_HOSTS, received, request, throttleVars, clockVars, metricsVars, callVars, cacheVars>>

\* the time at which an armed timer is due
AbortDue == request.start + UpstreamDeadlineMs

RouteDue == request.start + RequestDeadlineMs

\* the abort timer fires: fetch rejects with AbortError and the catch of
\* proxyM3U8 or proxyTs answers 504
AbortFires ==
    /\ inflight.abortTimer
    /\ now >= AbortDue
    /\ inflight' = [inflight EXCEPT !.pc = "done", !.abortTimer = FALSE,
                                    !.routeTimer = FALSE, !.aborted = TRUE,
                                    !.raised = Raised(HeadersSent)]
    /\ response' = Send(504, IF request.route = "/ts-proxy" THEN "" ELSE "TIMEOUT")
    /\ UNCHANGED <<ALLOWED_HOSTS, received, request, throttleVars, clockVars, metricsVars, callVars, cacheVars>>

\* the route timer of GET /proxy/hls fires
RouteTimerFires ==
    /\ inflight.routeTimer
    /\ ~inflight.abortTimer
    /\ now >= RouteDue
    /\ inflight' = [inflight EXCEPT !.routeTimer = FALSE]
    /\ response' = Send(504, "")
    /\ UNCHANGED <<ALLOWED_HOSTS, received, request, throttleVars, clockVars, metricsVars, callVars, cacheVars>>

\* the client closes its connection; no handler of the code runs
ClientCloses ==
    /\ request.connected
    /\ inflight.pc \in {"fetch", "text"}
    /\ request' = [request EXCEPT !.connected = FALSE]
    /\ inflight' = [inflight EXCEPT !.closedDuring = inflight.pc]
    /\ UNCHANGED <<ALLOWED_HOSTS, received, response, throttleVars, clockVars, metricsVars, callVars, cacheVars>>

\* time passes, and no further than the time at which an armed timer is due
DeadlineTick ==
    \E d \in DeadlineSteps :
        /\ inflight.abortTimer => now + d <= AbortDue
        /\ inflight.routeTimer => now + d <= RouteDue
        /\ Tick(d)
        /\ UNCHANGED <<throttleVars, callVars, cacheVars, proxyVars>>

NextDeadline ==
    \/ \E route \in DeadlineRoutes : StartRequest(route)
    \/ \E status \in DeadlineStatuses : UpstreamResponds(status)
    \/ BodyArrives
    \/ BodyFails
    \/ AbortFires
    \/ RouteTimerFires
    \/ ClientCloses
    \/ DeadlineTick

SpecDeadline == InitDeadline /\ [][NextDeadline]_vars

\* a request has been dispatched to a proxy
Dispatched == received = 1

\* C18: a request dispatched to the manifest proxy or the segment proxy
\* whose response headers have not been sent 60 s after its start is answered
\* 504 with code TIMEOUT: past that time every request is answered, and an
\* answer given at that time or later is the 504 TIMEOUT
RequestDeadline ==
    (Dispatched /\ now > RouteDue) =>
        /\ HeadersSent
        /\ response.at >= RouteDue => (response.status = 504 /\ response.code = "TIMEOUT")

\* the sanity of the counterexamples: a request whose upstream sends nothing
\* is answered when the upstream deadline has passed
AnsweredWhenUpstreamSilent ==
    (Dispatched /\ inflight.pc = "fetch") => now <= AbortDue

\* C19: every manifest request is answered: the fetch, the read of the body
\* included, is bounded by the upstream deadline of 55 s, so that past it the
\* request has been answered, by the manifest or, the fetch aborted, by 504
UpstreamDeadline ==
    (Dispatched /\ request.route # "/ts-proxy" /\ now > AbortDue) =>
        /\ HeadersSent
        /\ response.at >= AbortDue => (inflight.aborted /\ response.status = 504)

\* C20: the upstream fetch in flight when the client disconnects is
\* cancelled: it never settles otherwise than by its abort signal
CancelledOnDisconnect ==
    (inflight.closedDuring = "fetch" /\ inflight.pc # "fetch") => inflight.aborted

\* C37: at most one response status is committed for a request, however the
\* route timer of 60 s, the abort of the fetch at 55 s and the completion of
\* the proxy interleave: once the headers are sent no step changes the
\* response, and no exception of a later answer leaves the handler
OneStatusCommitted ==
    /\ [](inflight.raised # "escaped")
    /\ [][HeadersSent => response' = response]_vars

\* the route timer of GET /proxy/hls has answered 504 and the body of the
\* manifest has arrived afterwards: the answer of the proxy was given up
OneStatusCommittedWitness ==
    /\ request.route = "/proxy/hls"
    /\ inflight.pc = "done"
    /\ inflight.raised = "caught"
    /\ response.status = 504
    /\ response.at = RouteDue

(***************************************************************************)
(* The functions of utils/urlNormalizer called on their own, each on the   *)
(* strings of UrlInputs.                                                   *)
(***************************************************************************)
\* scheme and host of the inputs: as they should be, in upper case, of
\* another scheme, without a scheme, after white space
UrlHeads ==
    {"https://ok.example", "HTTP://CDN.ok.example", "ftp://ok.example",
     "ok.example", " https://ok.example"}

\* path, query and fragment of the inputs
UrlTails ==
    {"", "/a.m3u8", "/a#f", "/a%23f", "/a b", "/p/http://e.example/x", "/q/https://a.example/http://b",
     "/p?u=https://e.example/?q", "?token=s3cret", "/p?x=1&TOKEN=s3cret",
     "/p?api_key=s3cret&sig=s3cret#key=s3cret"}

PlainInputs == {head \o tail : head \in UrlHeads, tail \in UrlTails}

\* the inputs as they are and percent-encoded as a whole, and the empty string
UrlInputs == PlainInputs \cup {encodeURIComponent(s) : s \in PlainInputs} \cup {""}

InitUrl ==
    /\ ClockInit /\ MetricsInit /\ ThrottleInit /\ CacheInit /\ ProxyInit /\ CallIdle
    /\ ALLOWED_HOSTS = {}
    /\ THROTTLE_CONFIG.maxRequests = 1

\* the call of a function of one argument and its return
CallOf(fn, arg, value) ==
    /\ call' = [fn |-> fn, arg |-> arg]
    /\ result' = Some(value)
    /\ UNCHANGED <<clockVars, metricsVars, throttleVars, cacheVars, proxyVars>>

CallNormalizeUrl ==
    \E s \in UrlInputs :
        /\ call.fn = "none"
        /\ CallOf("normalizeUrl", s, normalizeUrl(s))

CallValidateUrlSafety ==
    \E s \in UrlInputs :
        /\ call.fn = "none"
        /\ CallOf("validateUrlSafety", s, validateUrlSafety(s))

\* normalizeUrl has returned a value
Normalized == call.fn = "normalizeUrl" /\ result[1] # Undefined

\* C21: normalizeUrl is idempotent: where normalizeUrl(s) succeeds,
\* normalizeUrl(normalizeUrl(s)) succeeds and equals it
NormalizeIdempotent == Normalized => normalizeUrl(result[1][1]) = result[1]

\* C22: every value normalizeUrl returns is a canonical URL: its scheme is
\* http or https and it contains no fragment
NormalizeCanonical ==
    Normalized =>
        /\ StartsWith(result[1][1], "http://") \/ StartsWith(result[1][1], "https://")
        /\ ~Includes(result[1][1], "#")

\* the text p stands in s at position i
OccursAt(s, i, p) == i + Len(p) - 1 <= Len(s) /\ SubSeq(s, i, i + Len(p) - 1) = p

\* the positions of s at which http:// or https:// stands
UrlPatternPositions(s) ==
    {i \in 1..Len(s) : OccursAt(s, i, "http://") \/ OccursAt(s, i, "https://")}

\* validateUrlSafety has returned
SafetyChecked == call.fn = "validateUrlSafety"

\* C23: validateUrlSafety returns invalid for every input in which
\* http:// or https:// occurs more than once, whether the input parses as a
\* URL or not
ConcatenatedRejected ==
    (SafetyChecked /\ Cardinality(UrlPatternPositions(call.arg)) > 1) =>
        ~result[1].valid

\* an input that parses and holds no nested URL in its query is rejected for
\* its two occurrences
ConcatenatedRejectedWitness ==
    /\ SafetyChecked
    /\ call.arg = "https://ok.example/p/http://e.example/x"
    /\ result[1] = [valid |-> FALSE, reason |-> "URL_MALFORMED: Multiple URLs concatenated"]

\* const sensitiveParams
SensitiveParams == <<"token", "key", "auth", "signature", "sig", "access_token", "api_key">>

\* the name of one name=value pair of the query
ParamName(pair) ==
    PercentDecode(PlusToSpace(IF IndexOf(pair, "=") = 0 THEN pair
                              ELSE SubSeq(pair, 1, IndexOf(pair, "=") - 1)))

NonEmpty(s) == s # ""

\* urlObj.searchParams: the list of the name-value pairs of the query
SearchParams(urlObj) ==
    IF urlObj.query = Undefined THEN << >>
    ELSE [i \in DOMAIN SelectSeq(Split(urlObj.query[1], "&"), NonEmpty) |->
             [name |-> ParamName(SelectSeq(Split(urlObj.query[1], "&"), NonEmpty)[i]),
              value |-> ParamValue(SelectSeq(Split(urlObj.query[1], "&"), NonEmpty)[i])]]

\* searchParams.has(name)
HasParam(params, name) == \E i \in DOMAIN params : params[i].name = name

\* the pairs of params at the indices of the set keep, in their order
RECURSIVE KeepPairs(_, _, _)
KeepPairs(params, keep, i) ==
    IF i > Len(params) THEN << >>
    ELSE (IF i \in keep THEN <<params[i]>> ELSE << >>) \o KeepPairs(params, keep, i + 1)

\* searchParams.set(name, value): the first pair of that name takes the
\* value, the others of that name are removed
SetParam(params, name, value) ==
    LET first == CHOOSE i \in DOMAIN params :
                     params[i].name = name /\ \A j \in 1..(i - 1) : params[j].name # name
    IN  KeepPairs([params EXCEPT ![first].value = value],
                  {i \in DOMAIN params : params[i].name # name \/ i = first}, 1)

\* the forEach over sensitiveParams, from its k-th element
RECURSIVE Redact(_, _)
Redact(params, k) ==
    IF k > Len(SensitiveParams) THEN params
    ELSE Redact(IF HasParam(params, SensitiveParams[k])
                THEN SetParam(params, SensitiveParams[k], "[REDACTED]")
                ELSE params,
                k + 1)

\* the application/x-www-form-urlencoded byte serializer
FormEncode(s) ==
    Concat([i \in 1..Len(s) |->
               IF IsAlpha(CharAt(s, i)) \/ IsDigit(CharAt(s, i)) \/ Includes("*-._", CharAt(s, i))
               THEN CharAt(s, i)
               ELSE IF CharAt(s, i) = " " THEN "+"
               ELSE PercentEncodeChar(CharAt(s, i))])

\* the query the list of pairs is serialized to
SerializeParams(params) ==
    Join([i \in DOMAIN params |-> FormEncode(params[i].name) \o "=" \o FormEncode(params[i].value)],
         "&")

\* urlObj.search once the sensitive parameters are set
RedactedSearch(urlObj) ==
    IF \E k \in DOMAIN SensitiveParams : HasParam(SearchParams(urlObj), SensitiveParams[k])
    THEN (IF Redact(SearchParams(urlObj), 1) = << >> THEN ""
          ELSE "?" \o SerializeParams(Redact(SearchParams(urlObj), 1)))
    ELSE Search(urlObj)

\* urlString.substring(0, 100) + (urlString.length > 100 ? '...' : '')
Truncated(urlString) ==
    IF Len(urlString) > 100 THEN SubSeq(urlString, 1, 100) \o "..." ELSE urlString

SanitizedOfParsed(urlString, urlObj) ==
    IF ~urlObj.ok THEN Truncated(urlString)
    ELSE Protocol(urlObj) \o "//" \o Hostname(urlObj) \o Pathname(urlObj)
             \o RedactedSearch(urlObj)

sanitizeUrlForLogging(urlString) ==
    IF urlString = "" THEN "[invalid-url]"
    ELSE SanitizedOfParsed(urlString, NewUrl(urlString))

CallSanitizeUrlForLogging ==
    \E s \in UrlInputs :
        /\ call.fn = "none"
        /\ CallOf("sanitizeUrlForLogging", s, sanitizeUrlForLogging(s))

NextUrl == CallNormalizeUrl \/ CallValidateUrlSafety \/ CallSanitizeUrlForLogging

SpecUrl == InitUrl /\ [][NextUrl]_vars

\* the value of the sensitive parameters of the inputs
Secret == "s3cret"

\* s has a parameter of a sensitive name, in any case, whose value is Secret
HasSensitiveParam(s) ==
    \E i \in 1..Len(s), k \in DOMAIN SensitiveParams, sep \in {"?", "&"} :
        OccursAt(ToLowerCase(s), i, sep \o SensitiveParams[k] \o "=" \o Secret)

\* C24: the output of sanitizeUrlForLogging holds no original value of a
\* parameter named token, key, auth, signature, sig, access_token or api_key,
\* the names matched without regard to case, also when the input does not
\* parse as a URL
SanitizeRedacts ==
    (call.fn = "sanitizeUrlForLogging" /\ HasSensitiveParam(call.arg)) =>
        ~Includes(result[1], Secret)

(***************************************************************************)
(* isHostAllowed called on its own, under each allowlist.                  *)
(***************************************************************************)
\* the hostnames isHostAllowed is called with; Undefined is the null of
\* extractHostname
HostInputs ==
    {Undefined, Some("")} \cup
    {Some(h) : h \in {"ok.example", "cdn.ok.example", "a.cdn.ok.example", "xok.example",
                      "ok.example.evil.test", "example", "OK.example", "bad.example",
                      "cdn.bad.example", "ok", "ok.example.", "e.test", "test"}}

\* the allowlists of the deployments
HostAllowlists == SUBSET {"ok.example", "cdn.bad.example", "test"}

InitHost ==
    /\ ClockInit /\ MetricsInit /\ ThrottleInit /\ CacheInit /\ ProxyInit /\ CallIdle
    /\ ALLOWED_HOSTS \in HostAllowlists
    /\ THROTTLE_CONFIG.maxRequests = 1

CallIsHostAllowed ==
    \E hostname \in HostInputs :
        /\ call.fn = "none"
        /\ call' = [fn |-> "isHostAllowed", arg |-> hostname]
        /\ result' = Some(isHostAllowed(hostname))
        /\ UNCHANGED <<ALLOWED_HOSTS, clockVars, metricsVars, throttleVars, cacheVars, proxyVars>>

NextHost == CallIsHostAllowed

SpecHost == InitHost /\ [][NextHost]_vars

\* isHostAllowed has returned for a hostname, a string that is not empty
HostChecked == call.fn = "isHostAllowed" /\ Truthy(call.arg)

\* the entry a of the allowlist is h or what follows one of the dots of h
ListedSuffix(h, a) == a = h \/ (Len(a) < Len(h) /\ EndsWith(h, "." \o a))

\* C25: isHostAllowed(h) is true for every hostname when the allowlist is
\* empty; when it is not, it is true exactly when h or a dot-suffix of h,
\* obtained by peeling labels from the left, is listed
HostPolicy ==
    HostChecked =>
        result[1] = (\/ ALLOWED_HOSTS = {}
                     \/ \E a \in ALLOWED_HOSTS : ListedSuffix(call.arg[1], a))

\* a subdomain of a listed host is admitted under an allowlist that does not
\* list it
HostPolicyWitness ==
    /\ HostChecked
    /\ ALLOWED_HOSTS # {}
    /\ call.arg[1] \notin ALLOWED_HOSTS
    /\ result[1] = TRUE

(***************************************************************************)
(* The Referer of the caller's headers as handleM3U8Proxy hands it to      *)
(* proxyM3U8, which sends it upstream.                                     *)
(***************************************************************************)
\* headers.Referer and headers.Origin of the caller, Undefined when absent
RefererValues ==
    {Undefined, Some(""), Some("vid123"), Some("/watch/1"), Some("watch?v=1"),
     Some("//cdn.example/x"), Some("site.example/w"), Some(" /w"),
     Some("https://site.example/w"), Some("http://a.example"),
     Some("HTTPS://Site.example/"), Some("mailto:x")}

OriginValues ==
    {Undefined, Some(""), Some("https://site.example"), Some("http://a.example"),
     Some("https://site.example/"), Some("https://b.example:8443"),
     Some("site.example"), Some("null"), Some("ftp://f.example"), Some("/")}

\* validateRefererHeader(referer, origin), Undefined for null
validateRefererHeader(referer, origin) ==
    IF ~Truthy(referer)
    THEN (IF Truthy(origin) THEN Some(origin[1] \o "/") ELSE Undefined)
    ELSE IF NewUrl(referer[1]).ok THEN referer
    ELSE IF Truthy(origin)
    THEN (IF StartsWith(referer[1], "/") THEN Some(origin[1] \o referer[1])
          ELSE Some(origin[1] \o "/" \o referer[1]))
    ELSE Undefined

\* headers.Referer after the repair of handleM3U8Proxy
RepairedReferer(referer, origin) ==
    IF Truthy(referer) /\ Truthy(origin)
       /\ Truthy(validateRefererHeader(referer, origin))
       /\ validateRefererHeader(referer, origin) # referer
    THEN validateRefererHeader(referer, origin)
    ELSE referer

InitReferer ==
    /\ ClockInit /\ MetricsInit /\ ThrottleInit /\ CacheInit /\ ProxyInit /\ CallIdle
    /\ ALLOWED_HOSTS = {}
    /\ THROTTLE_CONFIG.maxRequests = 1

CallRepairReferer ==
    \E referer \in RefererValues, origin \in OriginValues :
        /\ call.fn = "none"
        /\ call' = [fn |-> "handleM3U8Proxy", referer |-> referer, origin |-> origin]
        /\ result' = Some(RepairedReferer(referer, origin))
        /\ UNCHANGED <<clockVars, metricsVars, throttleVars, cacheVars, proxyVars>>

NextReferer == CallRepairReferer

SpecReferer == InitReferer /\ [][NextReferer]_vars

\* the caller has sent a Referer that is not a valid absolute URL
InvalidReferer ==
    /\ call.fn = "handleM3U8Proxy"
    /\ Truthy(call.referer)
    /\ ~NewUrl(call.referer[1]).ok

\* C26: a caller Referer that is not a valid absolute URL is repaired before
\* the fetch: Origin + Referer if it begins with '/', Origin + '/' + Referer
\* otherwise, and dropped if Origin is absent, so that no invalid Referer is
\* sent upstream
RefererRepaired ==
    InvalidReferer =>
        IF ~Truthy(call.origin) THEN ~Truthy(result[1])
        ELSE IF StartsWith(call.referer[1], "/")
        THEN result[1] = Some(call.origin[1] \o call.referer[1])
        ELSE result[1] = Some(call.origin[1] \o "/" \o call.referer[1])

\* the repair where the Origin is present
RefererRepairedWithOrigin ==
    (InvalidReferer /\ Truthy(call.origin)) =>
        IF StartsWith(call.referer[1], "/")
        THEN result[1] = Some(call.origin[1] \o call.referer[1])
        ELSE result[1] = Some(call.origin[1] \o "/" \o call.referer[1])

(***************************************************************************)
(* The resolver (utils/resolver): resolveUrl splits its input into parts   *)
(* and calls tryResolveUrl on each; tryResolveUrl runs up to its HEAD      *)
(* probe in one step and ends when the probe has settled.                  *)
(***************************************************************************)
\* the texts handed to resolveUrl
ResolveInputs ==
    {"", "no url here",
     "https://ok.example/p.m3u8",
     "https://bad.example/x or https://ok.example/p.m3u8",
     "https://ok.example/a.m3u8  OR  https://ok.example/b.m3u8",
     "https://bad.example/x.m3u8 or https://bad.example/y",
     "ftp://ok.example/a.m3u8 or https://ok.example/p?u=https://e.example/?q",
     "https://bad.example/x https://ok.example/p.m3u8",
     "https://ok.example/v|https://ok.example/p.m3u8",
     "https://bad.example/v | see https://ok.example/w",
     "{\"url\":\"https://ok.example/p.m3u8\"}",
     "{\"id\":\"https://CDN.ok.example/q\"}",
     "https://ok.example/p/http://e.example/x.m3u8",
     "https://ok.example/p?u=https://e.example/?q https://ok.example/p.m3u8 or https://ok.example/z.m3u8",
     "https://ok.example/1.m3u8 or https://bad.example/2.m3u8",
     "see https://e.example/live/m3u8/index"}

\* how a HEAD probe settles: ok with an HLS content type, ok with another
\* type, not ok, or rejected (network error, abort after 5 s)
ProbeOutcomes == {"hls", "ok", "notok", "rejected"}

\* /\s+or\s+/i at position i of s
OrAt(s, i) ==
    /\ i + 3 <= Len(s)
    /\ IsSpace(CharAt(s, i))
    /\ ToLowerCase(SubSeq(s, i + 1, i + 2)) = "or"
    /\ IsSpace(CharAt(s, i + 3))

\* cleaned.split(orPattern), each part trimmed
RECURSIVE SplitOr(_)
SplitOr(s) ==
    IF \E i \in 1..Len(s) : OrAt(s, i)
    THEN LET i == CHOOSE i \in 1..Len(s) : OrAt(s, i) /\ \A j \in 1..(i - 1) : ~OrAt(s, j)
         IN  <<Trim(SubSeq(s, 1, i - 1))>> \o SplitOr(TrimStart(From(s, i + 3)))
    ELSE <<Trim(s)>>

\* the parts resolveUrl tries in turn
PartsOf(cleaned) ==
    IF \E i \in 1..Len(cleaned) : OrAt(cleaned, i) THEN SplitOr(cleaned)
    ELSE IF Includes(cleaned, "|")
    THEN [i \in DOMAIN Split(cleaned, "|") |-> Trim(Split(cleaned, "|")[i])]
    ELSE <<cleaned>>

\* the value of the member of a JSON object of one string member whose name
\* is one of urlFields; Undefined for every other text (JSON.parse throws, or
\* no field is found and urlString stays as it is)
UrlFields == {"url", "link", "src", "source", "stream", "m3u8", "playlist"}

JsonUrlField(urlString) ==
    IF \E f \in UrlFields :
           /\ StartsWith(urlString, "{\"" \o f \o "\":\"")
           /\ EndsWith(urlString, "\"}")
           /\ Len(urlString) > Len(f) + 7
           /\ ~Includes(SubSeq(urlString, Len(f) + 6, Len(urlString) - 2), "\"")
           /\ ~Includes(SubSeq(urlString, Len(f) + 6, Len(urlString) - 2), "\\")
    THEN LET f == CHOOSE f \in UrlFields : StartsWith(urlString, "{\"" \o f \o "\":\"")
         IN  Some(SubSeq(urlString, Len(f) + 6, Len(urlString) - 2))
    ELSE Undefined

\* the characters that end a match of /https?:\/\/[^\s"<>{}|]+/g
IsUrlStop(c) == IsSpace(c) \/ Includes("\"<>{}|", c)

\* the length of the scheme prefix of the pattern at position i, 0 if none
UrlPrefixAt(s, i) ==
    IF StartsWith(From(s, i), "https://") THEN 8
    ELSE IF StartsWith(From(s, i), "http://") THEN 7
    ELSE 0

\* the last position of the run of characters from i that are no stops
RunEnd(s, i) ==
    CHOOSE e \in i..Len(s) :
        /\ \A j \in i..e : ~IsUrlStop(CharAt(s, j))
        /\ e = Len(s) \/ IsUrlStop(CharAt(s, e + 1))

\* urlString.match(urlPattern) from position i on
RECURSIVE UrlMatchesFrom(_, _)
UrlMatchesFrom(s, i) ==
    IF i > Len(s) THEN << >>
    ELSE IF /\ UrlPrefixAt(s, i) > 0
            /\ i + UrlPrefixAt(s, i) <= Len(s)
            /\ ~IsUrlStop(CharAt(s, i + UrlPrefixAt(s, i)))
    THEN <<SubSeq(s, i, RunEnd(s, i))>> \o UrlMatchesFrom(s, RunEnd(s, i) + 1)
    ELSE UrlMatchesFrom(s, i + 1)

\* the matches of the text tryResolveUrl searches
UrlMatches(urlString) ==
    UrlMatchesFrom(FirstDefined(JsonUrlField(urlString), Some(urlString))[1], 1)

IsM3U8(url) == Includes(url, "m3u8")

\* the normalized URL whatever its host
AllowedOfAnyHost(normalized, hostname) == normalized

\* the normalized URL if its host is allowed, Undefined if not
AllowedOf(normalized, hostname) ==
    IF isHostAllowed(hostname) THEN normalized ELSE Undefined

\* the checks of a candidate once validateUrlSafety and normalizeUrl have
\* returned or thrown
CheckedOf(safety, normalized) ==
    IF ~safety.valid THEN Undefined
    ELSE IF normalized = Undefined THEN Undefined
    ELSE AllowedOf(normalized, extractHostname(normalized[1]))

\* validateUrlSafety, normalizeUrl, extractHostname and isHostAllowed on a
\* candidate: the normalized URL, Undefined when one of them throws or fails
Checked(url) == CheckedOf(validateUrlSafety(url), normalizeUrl(url))

Throws == [kind |-> "throw", url |-> ""]

ReturnOf(checked) ==
    IF checked = Undefined THEN Throws ELSE [kind |-> "return", url |-> checked[1]]

ProbeOf(checked) ==
    IF checked = Undefined THEN Throws ELSE [kind |-> "probe", url |-> checked[1]]

\* the last lines of tryResolveUrl: the first match, checked
Fallback(matches) == ReturnOf(Checked(matches[1]))

\* the first m3u8 URL, checked, is probed; without one the first match is
\* checked and returned
TryCandidates(matches, m3u8Urls) ==
    IF m3u8Urls # << >> THEN ProbeOf(Checked(m3u8Urls[1])) ELSE Fallback(matches)

TryMatches(matches) ==
    IF matches = << >> THEN Throws
    ELSE TryCandidates(matches, SelectSeq(matches, IsM3U8))

\* tryResolveUrl up to its probe
TryStart(urlString) == TryMatches(UrlMatches(urlString))

\* tryResolveUrl once the probe of normalized has settled
AfterProbe(urlString, normalized, outcome) ==
    IF outcome = "hls" \/ (outcome = "ok" /\ Includes(normalized, ".m3u8"))
    THEN [kind |-> "return", url |-> normalized]
    ELSE IF outcome = "rejected"
    THEN (IF IsM3U8(normalized) THEN [kind |-> "return", url |-> normalized] ELSE Throws)
    ELSE Fallback(UrlMatches(urlString))

\* the call of resolveUrl: its parts, the part it is at, the outcome of the
\* parts tried so far, the URLs probed so far
ResolveCall(input, parts, k, tried, probed) ==
    [fn |-> "resolveUrl", input |-> input, parts |-> parts, k |-> k,
     tried |-> tried, probed |-> probed]

\* the state of the resolver: the call, the probe in flight, the result
Resolver(c, head, res) == [call |-> c, inflight |-> head, result |-> res]

RECURSIVE RunParts(_, _, _, _, _)
RECURSIVE PartThrew(_, _, _, _, _)
RECURSIVE PartSettled(_, _, _, _, _, _)
RECURSIVE Started(_, _, _, _, _, _)

\* a part has thrown without a catch around it: resolveUrl throws
PartThrewUncaught(input, parts, k, tried, probed) ==
    Resolver(ResolveCall(input, parts, k, Append(tried, Undefined), probed),
             Idle, Some(Undefined))

\* a part has thrown: the catch of the loop goes on to the next part, and
\* after the last part resolveUrl throws
PartThrew(input, parts, k, tried, probed) ==
    IF k = Len(parts)
    THEN Resolver(ResolveCall(input, parts, k, Append(tried, Undefined), probed),
                  Idle, Some(Undefined))
    ELSE RunParts(input, parts, k + 1, Append(tried, Undefined), probed)

\* tryResolveUrl has settled for part k
PartSettled(input, parts, k, tried, probed, r) ==
    IF r.kind = "throw" THEN PartThrew(input, parts, k, tried, probed)
    ELSE Resolver(ResolveCall(input, parts, k, Append(tried, Some(r.url)), probed),
                  Idle, Some(Some(r.url)))

\* tryResolveUrl has reached its probe or settled without one
Started(input, parts, k, tried, probed, r) ==
    IF r.kind = "probe"
    THEN Resolver(ResolveCall(input, parts, k, tried, Append(probed, r.url)),
                  [pc |-> "head", url |-> r.url], Undefined)
    ELSE PartSettled(input, parts, k, tried, probed, r)

\* the loop of resolveUrl from part k up to the next probe or the end
RunParts(input, parts, k, tried, probed) ==
    Started(input, parts, k, tried, probed, TryStart(parts[k]))

\* resolveUrl(input) up to its first await
resolveUrl(input) ==
    IF input = ""
    THEN Resolver(ResolveCall(input, << >>, 0, << >>, << >>), Idle, Some(Undefined))
    ELSE RunParts(input, PartsOf(Trim(input)), 1, << >>, << >>)

\* the resolver goes on as r; heads are the outcomes of the probes so far
Becomes(r, heads) ==
    /\ call' = [heads |-> heads] @@ r.call
    /\ inflight' = r.inflight
    /\ result' = r.result
    /\ UNCHANGED <<ALLOWED_HOSTS, received, request, response,
                   clockVars, metricsVars, throttleVars, cacheVars>>

\* the allowlists the resolver runs under
ResolveAllowlists == {{}, {"ok.example"}, {"bad.example", "e.example"}}

InitResolve ==
    /\ ClockInit /\ MetricsInit /\ ThrottleInit /\ CacheInit /\ CallIdle
    /\ received = 0 /\ request = NoRequest /\ inflight = Idle /\ response = NoResponse
    /\ ALLOWED_HOSTS \in ResolveAllowlists
    /\ THROTTLE_CONFIG.maxRequests = 1

CallResolveUrl ==
    \E input \in ResolveInputs :
        /\ call.fn = "none"
        /\ Becomes(resolveUrl(input), << >>)

\* the resolver after the probe in flight has settled with outcome
Probed(outcome) ==
    PartSettled(call.input, call.parts, call.k, call.tried, call.probed,
                AfterProbe(call.parts[call.k], inflight.url, outcome))

ProbeSettles ==
    \E outcome \in ProbeOutcomes :
        /\ call.fn = "resolveUrl"
        /\ inflight.pc = "head"
        /\ Becomes(Probed(outcome), Append(call.heads, outcome))

NextResolve == CallResolveUrl \/ ProbeSettles

SpecResolve == InitResolve /\ [][NextResolve]_vars

\* resolveUrl has returned or thrown
Resolved == call.fn = "resolveUrl" /\ result # Undefined

\* the input of the call is a list of parts separated by or
OrList == \E i \in 1..Len(Trim(call.input)) : OrAt(Trim(call.input), i)

\* the parts tried so far that resolved
ResolvedParts == {i \in DOMAIN call.tried : call.tried[i] # Undefined}

\* C27: for an input matching /\s+or\s+/i, resolveUrl tries the parts in
\* order and returns the result of the first part that resolves, skipping the
\* parts that fail; it fails only when every part has failed
FirstResolvingPart ==
    (Resolved /\ OrList) =>
        IF ResolvedParts = {}
        THEN result[1] = Undefined /\ Len(call.tried) = Len(call.parts)
        ELSE /\ result[1] = call.tried[Len(call.tried)]
             /\ ResolvedParts = {Len(call.tried)}

\* with only ok.example allowed, the part of the host bad.example is skipped
\* and the part of ok.example is returned
FirstResolvingPartWitness ==
    /\ Resolved
    /\ ALLOWED_HOSTS = {"ok.example"}
    /\ call.input = "https://bad.example/x or https://ok.example/p.m3u8"
    /\ call.tried = <<Undefined, Some("https://ok.example/p.m3u8")>>
    /\ result[1] = Some("https://ok.example/p.m3u8")

\* the URLs found in the parts of the input
Candidates == UNION {{UrlMatches(call.parts[i])[j] : j \in DOMAIN UrlMatches(call.parts[i])} :
                        i \in DOMAIN call.parts}

\* url is the output of normalizeUrl for a candidate that has passed
\* validateUrlSafety, and its host is accepted by isHostAllowed
PassedChecks(url) ==
    /\ \E u \in Candidates : validateUrlSafety(u).valid /\ normalizeUrl(u) = Some(url)
    /\ isHostAllowed(extractHostname(url))

\* C28: every URL resolveUrl returns, on every path (accepted by the HEAD
\* probe, accepted after the failure of the probe, first-URL fallback), has
\* passed validateUrlSafety, is the output of normalizeUrl and has a host
\* accepted by isHostAllowed; and every HEAD probe is issued only after the
\* three checks have passed for the probed URL
ResolvedChecked ==
    call.fn = "resolveUrl" =>
        /\ \A i \in DOMAIN call.probed : PassedChecks(call.probed[i])
        /\ (result # Undefined /\ result[1] # Undefined) => PassedChecks(result[1][1])

\* a URL has been returned by the first-URL fallback after a probe that was
\* answered not ok, under an allowlist that is not empty
ResolvedCheckedWitness ==
    /\ Resolved
    /\ ALLOWED_HOSTS # {}
    /\ call.heads = <<"notok">>
    /\ result[1] # Undefined


(***************************************************************************)
(* The metrics collector under the calls its module exports:               *)
(* metrics.recordRequest, metrics.reset and logRequest.                    *)
(***************************************************************************)
\* most requests recorded between two resets, and most lines written
MaxRecorded == 2

RecordedHosts == {Undefined, Some("ok.example")}

RecordedTypes == {"manifest", "segment", "resolve"}

RecordedDurations == {0, 12}

RecordedStatuses == {Undefined, Some(403)}

InitMetrics ==
    /\ ClockInit /\ MetricsInit /\ ThrottleInit /\ THROTTLE_CONFIG.maxRequests = 1
    /\ CallIdle /\ CacheInit /\ ProxyInit /\ ALLOWED_HOSTS = {}

Recording(fn, hostname, success) ==
    /\ metrics.globalMetrics.totalRequests < MaxRecorded
    /\ call' = [fn |-> fn, hostname |-> hostname, success |-> success]
    /\ result' = Undefined
    /\ UNCHANGED <<throttleVars, clockVars, cacheVars, proxyVars>>

\* metrics.recordRequest(hostname, type, success, duration, statusCode)
CallRecordRequest ==
    \E hostname \in RecordedHosts, type \in RecordedTypes, success \in BOOLEAN,
       duration \in RecordedDurations, statusCode \in RecordedStatuses :
        /\ Recording("recordRequest", hostname, success)
        /\ metrics' = recordRequest(metrics, hostname, type, success, duration, statusCode, now)
        /\ UNCHANGED consoleLines

\* logRequest(hostname, type, success, duration, statusCode)
CallLogRequest ==
    \E hostname \in RecordedHosts, type \in RecordedTypes, success \in BOOLEAN,
       duration \in RecordedDurations, statusCode \in RecordedStatuses :
        /\ consoleLines < MaxRecorded
        /\ Recording("logRequest", hostname, success)
        /\ logRequest(hostname, type, success, duration, statusCode)

\* metrics.reset()
reset ==
    /\ call' = [fn |-> "reset"]
    /\ result' = Undefined
    /\ metrics' = NoMetrics
    /\ UNCHANGED <<consoleLines, throttleVars, clockVars, cacheVars, proxyVars>>

NextMetrics == CallRecordRequest \/ CallLogRequest \/ reset

SpecMetrics == InitMetrics /\ [][NextMetrics]_vars

\* the counters of an entry, per host or global
CountersOfHost(hostMetric) ==
    <<hostMetric.totalRequests, hostMetric.totalErrors, hostMetric.manifestRequests,
      hostMetric.segmentRequests, hostMetric.segmentErrors>>

CountersOfGlobal(g) ==
    <<g.totalRequests, g.totalErrors, g.totalManifestRequests,
      g.totalSegmentRequests, g.segmentErrors>>

NoneDecreases(before, after) == \A i \in 1..5 : before[i] <= after[i]

\* every host keeps its entry and no counter of it, nor a global one, decreases
CountersGrow ==
    /\ NoneDecreases(CountersOfGlobal(metrics.globalMetrics),
                     CountersOfGlobal(metrics'.globalMetrics))
    /\ \A h \in DOMAIN metrics.hostMetrics :
        /\ h \in DOMAIN metrics'.hostMetrics
        /\ NoneDecreases(CountersOfHost(metrics.hostMetrics[h]),
                         CountersOfHost(metrics'.hostMetrics[h]))

\* C29: no counter, per host or global, decreases and no host loses its
\* entry under recordRequest, whether called directly or by logRequest; the
\* one step that does not keep them is reset(), which leaves no host and
\* every global counter at zero
CountersMonotone ==
    [][IF call'.fn = "reset"
       THEN DOMAIN metrics'.hostMetrics = {}
            /\ CountersOfGlobal(metrics'.globalMetrics) = <<0, 0, 0, 0, 0>>
       ELSE CountersGrow]_vars

\* a host has been recorded twice, with an error, since the last reset
CountersMonotoneWitness ==
    /\ call.fn = "recordRequest"
    /\ \E h \in DOMAIN metrics.hostMetrics :
        /\ metrics.hostMetrics[h].totalRequests = 2
        /\ metrics.hostMetrics[h].totalErrors = 1

\* the sum of a counter over the hosts
RECURSIVE SumOver(_, _, _)
SumOver(hostMetrics, hosts, field) ==
    IF hosts = {} THEN 0
    ELSE LET h == CHOOSE x \in hosts : TRUE
         IN hostMetrics[h][field] + SumOver(hostMetrics, hosts \ {h}, field)

SumOfHosts(field) == SumOver(metrics.hostMetrics, DOMAIN metrics.hostMetrics, field)

\* errors within requests, segment errors within segment requests, manifest
\* and segment requests within requests
CountersConsistent(requests, errors, manifests, segments, segmentErrors) ==
    /\ errors <= requests
    /\ segmentErrors <= segments
    /\ manifests + segments <= requests

\* C39: in every state of the collector the counters of each host and the
\* global counters are consistent, and the global totalRequests, totalErrors
\* and segmentErrors are the sums of those of the hosts
CountersAgree ==
    LET g == metrics.globalMetrics IN
    /\ CountersConsistent(g.totalRequests, g.totalErrors, g.totalManifestRequests,
                          g.totalSegmentRequests, g.segmentErrors)
    /\ \A h \in DOMAIN metrics.hostMetrics :
        LET hostMetric == metrics.hostMetrics[h] IN
        CountersConsistent(hostMetric.totalRequests, hostMetric.totalErrors,
                           hostMetric.manifestRequests, hostMetric.segmentRequests,
                           hostMetric.segmentErrors)
    /\ g.totalRequests = SumOfHosts("totalRequests")
    /\ g.totalErrors = SumOfHosts("totalErrors")
    /\ g.segmentErrors = SumOfHosts("segmentErrors")

\* two hosts have been recorded, one of them under 'unknown', with a failed
\* segment and a request that is neither a manifest nor a segment
CountersAgreeWitness ==
    /\ DOMAIN metrics.hostMetrics = {"unknown", "ok.example"}
    /\ metrics.globalMetrics.totalRequests = 2
    /\ metrics.globalMetrics.segmentErrors = 1
    /\ metrics.globalMetrics.totalSegmentRequests = 1
    /\ metrics.globalMetrics.totalManifestRequests = 0

(***************************************************************************)
(* The log the routes keep.  handleM3U8Proxy and GET /ts-proxy are taken   *)
(* from their checks to the return of the proxy function they await, with  *)
(* every call of logRequest they make on the way; what the proxy function  *)
(* answers is an input.                                                    *)
(***************************************************************************)
LoggedRoutes == {"/m3u8-proxy", "/ts-proxy"}

\* the statuses proxyM3U8 and proxyTs answer with before they return
ProxyAnswers == {200, 403, 404, 500, 502, 504}

LoggedSteps == {40}

InitLogged ==
    /\ ClockInit /\ MetricsInit /\ ThrottleInit /\ THROTTLE_CONFIG.maxRequests = 1
    /\ CallIdle /\ CacheInit /\ ProxyInit
    /\ ALLOWED_HOSTS \in Allowlists

TypeOfRoute(route) == IF route = "/ts-proxy" THEN "segment" ELSE "manifest"

\* what the routes log of a request they answer themselves: nothing when the
\* url is missing or validateUrlSafety refuses it, else the host rejection
\* under the hostname, and the error of normalizeUrl under
\* hostname || 'unknown', both with the duration Date.now() - startTime of
\* a handler that has not awaited
LogRejected(route, targetUrl, safe, hostname, check) ==
    IF Truthy(targetUrl) /\ safe
    THEN logRequest(hostname, TypeOfRoute(route), FALSE, 0, Some(check.status))
    ELSE UNCHANGED metricsVars

\* the route up to its await of the proxy function
LoggedRoute(route, targetUrl, safe, hostname, check) ==
    /\ inflight = Idle
    /\ received < MaxRequests
    /\ received' = received + 1
    /\ request' = [route |-> route, target |-> targetUrl, proxied |-> check.url,
                   hostname |-> hostname, startTime |-> now]
    /\ IF check.url = Undefined
       THEN Reject(check) /\ LogRejected(route, targetUrl, safe, hostname, check)
       ELSE /\ response' = NoResponse
            /\ inflight' = [pc |-> "proxy", route |-> route, url |-> check.url[1]]
            /\ UNCHANGED <<playlistCache, metricsVars>>
    /\ UNCHANGED <<ALLOWED_HOSTS, lastSet, got, clockVars, throttleVars, callVars>>

\* a request without its url parameter
MissingUrl ==
    \E route \in LoggedRoutes :
        /\ inflight = Idle
        /\ LoggedRoute(route, Undefined, FALSE, Undefined, TargetCheck(Undefined))

\* a request with a url parameter
WithUrl ==
    \E route \in LoggedRoutes, targetUrl \in RequestTargets \ {Undefined} :
        /\ Truthy(targetUrl)
        /\ LoggedRoute(route, targetUrl, TargetFacts[targetUrl].safety.valid,
                       TargetFacts[targetUrl].hostname, TargetCheck(targetUrl))

\* the proxy function returns, having answered: the route logs a success of
\* status 200 whatever the answer was
ProxyReturns ==
    \E status \in ProxyAnswers :
        /\ inflight.pc = "proxy"
        /\ response' = [status |-> status, code |-> "", upstream |-> 0, xcache |-> "",
                        body |-> ""]
        /\ inflight' = Idle
        /\ logRequest(request.hostname, TypeOfRoute(request.route), TRUE,
                      now - request.startTime, Some(200))
        /\ UNCHANGED <<ALLOWED_HOSTS, received, request, cacheVars, clockVars,
                       throttleVars, callVars>>

LoggedTick ==
    \E d \in LoggedSteps :
        Tick(d) /\ UNCHANGED <<throttleVars, callVars, cacheVars, proxyVars>>

NextLogged == MissingUrl \/ WithUrl \/ ProxyReturns \/ LoggedTick

SpecLogged == InitLogged /\ [][NextLogged]_vars

\* the step in which a request terminates: its response is sent and nothing
\* of it is in flight
Terminates == response' # NoResponse /\ inflight' = Idle /\ (Receives \/ inflight # Idle)

LoggedOnce ==
    /\ consoleLines' = consoleLines + 1
    /\ metrics'.globalMetrics.totalRequests = metrics.globalMetrics.totalRequests + 1

\* C30: the step in which a /m3u8-proxy or /ts-proxy request terminates
\* writes one log line and counts one request in the metrics
EveryTerminationLogged == [][Terminates => LoggedOnce]_vars

\* every terminated request has been logged at most once, and exactly once
\* when its url passed validateUrlSafety
TerminationLoggedWhenSafe ==
    [][Terminates =>
        IF Truthy(request'.target) /\ TargetFacts[request'.target].safety.valid
        THEN LoggedOnce ELSE UNCHANGED metricsVars]_vars

(***************************************************************************)
(* The timing buffers.  One host is recorded often enough for its buffers  *)
(* to fill; the duration of a request is its arrival number within its     *)
(* category, so that a buffer shows which requests it holds.               *)
(***************************************************************************)
\* most manifest requests timed
MaxTimed == 1002

\* most segment requests timed
MaxSegmentsTimed == 2

TimedHost == Some("ok.example")

InitTimings ==
    /\ ClockInit /\ MetricsInit /\ ThrottleInit /\ THROTTLE_CONFIG.maxRequests = 1
    /\ CallIdle /\ CacheInit /\ ProxyInit /\ ALLOWED_HOSTS = {}

Timed(type, duration) ==
    /\ call' = [fn |-> "recordRequest", type |-> type]
    /\ result' = Undefined
    /\ metrics' = recordRequest(metrics, TimedHost, type, TRUE, duration, Some(200), now)
    /\ UNCHANGED <<consoleLines, throttleVars, clockVars, cacheVars, proxyVars>>

\* metrics.recordRequest(hostname, 'manifest', true, duration, 200)
TimeManifest ==
    /\ metrics.globalMetrics.totalManifestRequests < MaxTimed
    /\ Timed("manifest", metrics.globalMetrics.totalManifestRequests + 1)

\* metrics.recordRequest(hostname, 'segment', true, duration, 200)
TimeSegment ==
    /\ metrics.globalMetrics.totalSegmentRequests < MaxSegmentsTimed
    /\ Timed("segment", metrics.globalMetrics.totalSegmentRequests + 1)


NextTimings == TimeManifest \/ TimeSegment

SpecTimings == InitTimings /\ [][NextTimings]_vars

\* the latest min(n, TimingsKept) of the arrivals 1..n, oldest first
LatestOf(n) ==
    [i \in 1..(IF n < TimingsKept THEN n ELSE TimingsKept) |->
        i + (IF n < TimingsKept THEN 0 ELSE n - TimingsKept)]

HostTimings(field) ==
    IF TimedHost[1] \in DOMAIN metrics.hostMetrics
    THEN metrics.hostMetrics[TimedHost[1]][field] ELSE << >>

\* C31: each buffer, of the host and global, holds no more than the timings
\* kept, and holds the durations of the latest requests of its category in
\* the order they arrived
TimingsBounded ==
    /\ metrics.globalMetrics.manifestTimings = LatestOf(metrics.globalMetrics.totalManifestRequests)
    /\ metrics.globalMetrics.segmentTimings = LatestOf(metrics.globalMetrics.totalSegmentRequests)
    /\ HostTimings("manifestTimings") = LatestOf(metrics.globalMetrics.totalManifestRequests)
    /\ HostTimings("segmentTimings") = LatestOf(metrics.globalMetrics.totalSegmentRequests)
    /\ Len(metrics.globalMetrics.manifestTimings) <= TimingsKept
    /\ Len(HostTimings("manifestTimings")) <= TimingsKept

\* the oldest manifest timing has been evicted
TimingsBoundedWitness ==
    /\ metrics.globalMetrics.totalManifestRequests > TimingsKept
    /\ Len(metrics.globalMetrics.manifestTimings) = TimingsKept
    /\ Head(metrics.globalMetrics.manifestTimings) = 2

(***************************************************************************)
(* The code of an error envelope: ErrorObject, its code getter.            *)
(***************************************************************************)
\* [A-Z_]
CodeChars == UpperAlpha \o "_"

\* the line terminators, which . does not match
IsLineTerminator(c) == c = "\n" \/ c = "\r"

\* the length of the longest run of [A-Z_] the message starts with
CodeRunEnd(message) ==
    CHOOSE n \in 0..Len(message) :
        /\ \A i \in 1..n : Includes(CodeChars, CharAt(message, i))
        /\ n = Len(message) \/ ~Includes(CodeChars, CharAt(message, n + 1))

\* \s*(.+)$ matches rest: some white space, then at least one character and
\* no line terminator up to the end
TextMatches(rest) ==
    \E k \in 0..Len(rest) :
        /\ \A i \in 1..k : IsSpace(CharAt(rest, i))
        /\ k < Len(rest)
        /\ \A i \in (k + 1)..Len(rest) : ~IsLineTerminator(CharAt(rest, i))

\* this._message.match(/^([A-Z_]+):\s*(.+)$/): the first group, or Undefined
\* for no match
CodeMatchAt(message, n) ==
    IF n >= 1 /\ n < Len(message) /\ CharAt(message, n + 1) = ":"
       /\ TextMatches(From(message, n + 2))
    THEN Some(SubSeq(message, 1, n)) ELSE Undefined

CodeMatch(message) == CodeMatchAt(message, CodeRunEnd(message))

\* the default codes based on the response code
DefaultCode(responseCode) ==
    IF responseCode = 403 THEN "UPSTREAM_403"
    ELSE IF responseCode = 401 THEN "UPSTREAM_401"
    ELSE IF responseCode = 404 THEN "NOT_FOUND"
    ELSE IF responseCode = 429 THEN "RATE_LIMIT_EXCEEDED"
    ELSE "ERROR"

\* new ErrorObject(message, provider, responseCode, hint): message and
\* responseCode as the constructor keeps them; a responseCode of 0 stands
\* for every falsy one
ErrorObject(message, responseCode) ==
    [message |-> IF message = "" THEN "Unknown error" ELSE message,
     responseCode |-> IF responseCode = 0 THEN 500 ELSE responseCode]

\* get code()
CodeOf(error, codeMatch) ==
    IF codeMatch # Undefined THEN codeMatch[1] ELSE DefaultCode(error.responseCode)

ErrorCode(error) == CodeOf(error, CodeMatch(error.message))

\* the codes of the taxonomy, with a passthrough code UPSTREAM_<n>
TaxonomyCodes ==
    {"URL_MALFORMED", "HOST_NOT_ALLOWED", "RATE_LIMIT_EXCEEDED", "UPSTREAM_401",
     "UPSTREAM_403", "NOT_FOUND", "UPSTREAM_502", "BAD_GATEWAY", "TIMEOUT", "ERROR"}

ErrorTexts == {"x", "Host a.b is not in allowlist"}

ErrorMessages ==
    {code \o ": " \o text : code \in TaxonomyCodes, text \in ErrorTexts}
    \cup {"", "Invalid URL", "TIMEOUT:", "TIMEOUT: ", "timeout: x", "ERROR:\nx", "ERROR:x\n"}

ErrorResponseCodes == {0, 400, 401, 403, 404, 429, 500, 502, 504}

InitError ==
    /\ ClockInit /\ MetricsInit /\ ThrottleInit /\ CacheInit /\ ProxyInit /\ CallIdle
    /\ ALLOWED_HOSTS = {}
    /\ THROTTLE_CONFIG.maxRequests = 1

\* new ErrorObject(message, 'proxy', responseCode, hint, true).code
CallCode ==
    \E message \in ErrorMessages, responseCode \in ErrorResponseCodes :
        /\ call.fn = "none"
        /\ CallOf("code", ErrorObject(message, responseCode),
                  ErrorCode(ErrorObject(message, responseCode)))

NextError == CallCode

SpecError == InitError /\ [][NextError]_vars

\* the message has the form 'CODE: text' for the given code
HasCodePrefix(message, code) ==
    StartsWith(message, code \o ": ") /\ Len(message) > Len(code) + 2

\* C32: the code of an envelope whose message is 'CODE: text', for a code of
\* the taxonomy, is that code; the code of an envelope whose message holds
\* no colon is the default code of its status
CodeFromPrefix ==
    call.fn = "code" =>
        /\ \A code \in TaxonomyCodes :
                HasCodePrefix(call.arg.message, code) => result = Some(code)
        /\ ~Includes(call.arg.message, ":") =>
                result = Some(DefaultCode(call.arg.responseCode))

\* the same for the codes that hold no digit
HasDigit(code) == \E i \in 1..Len(code) : Includes(Digits, CharAt(code, i))

CodeFromLetterPrefix ==
    call.fn = "code" =>
        \A code \in TaxonomyCodes :
            (~HasDigit(code) /\ HasCodePrefix(call.arg.message, code)) => result = Some(code)

\* an envelope whose message starts with a code that holds a digit has the
\* default code of its status
CodeOfDigitPrefix ==
    call.fn = "code" =>
        \A code \in TaxonomyCodes :
            (HasDigit(code) /\ HasCodePrefix(call.arg.message, code)) =>
                result = Some(DefaultCode(call.arg.responseCode))

(***************************************************************************)
(* Throttler: a rejected client and the end of its blocking period.        *)
(***************************************************************************)
\* C33: a request the throttler rejects leaves the record of its client
\* without the time of the request, so the oldest timestamp of the record
\* stays what it was; and a request of a client made at or after the oldest
\* timestamp of its record plus windowMs is admitted, its time appended
ReadmittedAfterWindow ==
    [][\A req \in ThrottleRequests :
          throttleMiddleware(req) =>
              LET c == throttleRes'.ip
                  rec == RecordOf(requestTimestamps, c)
                  after == RecordOf(requestTimestamps', c)
              IN  /\ throttleRes'.status = 429 =>
                        /\ after = InWindow(rec, now, THROTTLE_CONFIG.windowMs)
                        /\ after[1] + THROTTLE_CONFIG.windowMs > now
                  /\ (Len(rec) > 0 /\ now >= rec[1] + THROTTLE_CONFIG.windowMs) =>
                        /\ throttleRes'.status = 0
                        /\ after[Len(after)] = now]_vars

\* a client whose record was full with a request at time 0 has been admitted
\* again exactly windowMs later
ReadmittedAfterWindowWitness ==
    /\ THROTTLE_CONFIG.maxRequests = 1
    /\ now = THROTTLE_CONFIG.windowMs
    /\ throttleRes.req # Undefined
    /\ throttleRes.status = 0
    /\ requestTimestamps[throttleRes.ip] = <<now>>

(***************************************************************************)
(* proxyM3U8 under requests that overlap.  Each request runs from its      *)
(* cache lookup to its await of fetch in one step, then to its await of    *)
(* response.text(), then to its answer; the steps of two requests          *)
(* interleave at the awaits.  A request carries the base URL getServerUrl  *)
(* derives from its headers.                                               *)
(***************************************************************************)
\* the headers getServerUrl reads: Host, x-forwarded-proto, and req.protocol
ServerRequests ==
    { [host |-> "px.example", xForwardedProto |-> Some("https"), protocol |-> "http"],
      [host |-> "px.example", xForwardedProto |-> Some("http"), protocol |-> "http"],
      [host |-> "localhost:3000", xForwardedProto |-> Some("https"), protocol |-> "http"],
      [host |-> "px.example", xForwardedProto |-> Undefined, protocol |-> "https"],
      [host |-> "px.example", xForwardedProto |-> Some("ws"), protocol |-> "http"] }

IsLocalhost(host) ==
    \/ Includes(host, "localhost") \/ Includes(host, "127.0.0.1") \/ Includes(host, "::1")
    \/ StartsWith(host, "192.168.") \/ StartsWith(host, "10.")

IsRailway(host) == Includes(host, ".up.railway.app") \/ Includes(host, "railway.app")

\* the protocol before the final fallback, Undefined when no header gives it
ForwardedProtocol(req) ==
    IF IsRailway(req.host) THEN Some("https")
    ELSE IF IsLocalhost(req.host) THEN Some("http")
    ELSE IF ~Truthy(req.xForwardedProto) THEN Some(req.protocol)
    ELSE req.xForwardedProto

ProtocolOf(req, protocol) ==
    IF ~Truthy(protocol) \/ (protocol[1] # "https" /\ protocol[1] # "http")
    THEN (IF IsLocalhost(req.host) THEN "http" ELSE "https")
    ELSE protocol[1]

getServerUrl(req) == ProtocolOf(req, ForwardedProtocol(req)) \o "://" \o req.host

\* the requests that overlap
Slots == {1, 2}

\* the playlist the requests ask for
ManifestUrl == "https://ok.example/a.m3u8"

ManifestStatuses == {200, 404, 500}

ManifestBodies == {"", "seg1.ts", "#EXT-X-KEY:METHOD=AES-128,URI=\"http://\""}

ManifestSteps == {10, PlaylistTtlMs + 1}

\* the rewrite of each body under each base URL
Processed ==
    [m3u8Content \in ManifestBodies, req \in ServerRequests |->
        ProcessManifest(m3u8Content, ManifestUrl, getServerUrl(req))]

AllIdle == [i \in Slots |-> Idle]

InitManifests ==
    /\ ClockInit /\ MetricsInit /\ ThrottleInit /\ THROTTLE_CONFIG.maxRequests = 1
    /\ CallIdle /\ CacheInit /\ ALLOWED_HOSTS = {}
    /\ received = 0 /\ request = NoRequest /\ response = NoResponse
    /\ inflight = AllIdle

\* the request a response answers
Answers(i, req) == [slot |-> i, url |-> ManifestUrl, req |-> req]

\* proxyM3U8 up to its await of fetch: a truthy cached value is served
StartManifest(i, req, cachedContent) ==
    /\ inflight[i] = Idle
    /\ received < MaxRequests
    /\ received' = received + 1
    /\ playlistCache' = AfterGet(ManifestUrl)
    /\ IF Truthy(cachedContent)
       THEN /\ response' = [status |-> 200, code |-> "", upstream |-> 0, xcache |-> "HIT",
                            body |-> cachedContent[1]]
            /\ request' = Answers(i, req)
            /\ UNCHANGED inflight
       ELSE /\ inflight' = [inflight EXCEPT ![i] = [pc |-> "fetch", req |-> req]]
            /\ UNCHANGED <<request, response>>
    /\ UNCHANGED <<ALLOWED_HOSTS, lastSet, got, clockVars, metricsVars, throttleVars, callVars>>

RequestManifest ==
    \E i \in Slots, req \in ServerRequests :
        /\ inflight[i] = Idle
        /\ StartManifest(i, req, getCachedPlaylist(ManifestUrl))

\* fetch resolves: a response that is not ok is answered, for an ok one the
\* body is awaited
ManifestFetched ==
    \E i \in Slots, status \in ManifestStatuses :
        /\ inflight[i].pc = "fetch"
        /\ IF status # 200
           THEN /\ response' = UpstreamError("/m3u8-proxy", status)
                /\ request' = Answers(i, inflight[i].req)
                /\ inflight' = [inflight EXCEPT ![i] = Idle]
           ELSE /\ inflight' = [inflight EXCEPT ![i].pc = "text"]
                /\ UNCHANGED <<request, response>>
        /\ UNCHANGED <<ALLOWED_HOSTS, received, cacheVars, clockVars, metricsVars,
                       throttleVars, callVars>>

\* fetch or response.text() rejects, or the abort timer fires: the catch
\* answers 502, 504 or 500
ManifestFailed ==
    \E i \in Slots, status \in {500, 502, 504} :
        /\ inflight[i].pc \in {"fetch", "text"}
        /\ status = 504 => inflight[i].pc = "fetch"
        /\ response' = [status |-> status,
                        code |-> IF status = 504 THEN "TIMEOUT"
                                 ELSE IF status = 502 THEN "BAD_GATEWAY" ELSE "ERROR",
                        upstream |-> 0, xcache |-> "", body |-> ""]
        /\ request' = Answers(i, inflight[i].req)
        /\ inflight' = [inflight EXCEPT ![i] = Idle]
        /\ UNCHANGED <<ALLOWED_HOSTS, received, cacheVars, clockVars, metricsVars,
                       throttleVars, callVars>>

\* a write of the rewrite's text whether or not the rewrite threw
CachedAfterAlways(processed) == AfterSet(ManifestUrl, processed.text)

\* setCachedPlaylist(targetUrl, processedContent), which an error of the
\* rewrite does not reach
CachedAfter(processed) ==
    IF processed.threw THEN playlistCache ELSE AfterSet(ManifestUrl, processed.text)

\* response.text() resolves: the playlist is rewritten, cached and sent, or
\* the error of the rewrite is answered with 500
ManifestRewritten(i, processed) ==
    /\ inflight[i].pc = "text"
    /\ playlistCache' = CachedAfter(processed)
    /\ response' = IF processed.threw
                   THEN [status |-> 500, code |-> "ERROR", upstream |-> 200,
                         xcache |-> "", body |-> ""]
                   ELSE [status |-> 200, code |-> "", upstream |-> 200,
                         xcache |-> "MISS", body |-> processed.text]
    /\ request' = Answers(i, inflight[i].req)
    /\ inflight' = [inflight EXCEPT ![i] = Idle]
    /\ UNCHANGED <<ALLOWED_HOSTS, received, lastSet, got, clockVars, metricsVars,
                   throttleVars, callVars>>

ManifestText ==
    \E i \in Slots, m3u8Content \in ManifestBodies :
        /\ inflight[i].pc = "text"
        /\ ManifestRewritten(i, Processed[m3u8Content, inflight[i].req])

ManifestTick ==
    \E d \in ManifestSteps :
        Tick(d) /\ UNCHANGED <<cacheVars, proxyVars, throttleVars, callVars>>

NextManifests ==
    \/ RequestManifest \/ ManifestFetched \/ ManifestFailed \/ ManifestText
    \/ clearCaches \/ ManifestTick

SpecManifests == InitManifests /\ [][NextManifests]_vars

\* the rewritten bodies of the upstream responses for the playlist under
\* the base URL of a request
RewrittenFor(req) ==
    {Processed[b, req].text : b \in {c \in ManifestBodies : ~Processed[c, req].threw}}

\* the step writes the cache: a request whose body has arrived answers 200
\* with the rewritten body of an upstream response, and the cache holds that
\* body under the URL with a new TTL
WritesRewritten ==
    \E i \in Slots :
        /\ inflight[i].pc = "text"
        /\ inflight'[i] = Idle
        /\ response'.status = 200 /\ response'.upstream = 200
        /\ response'.body \in RewrittenFor(inflight[i].req)
        /\ playlistCache' = MapPut(playlistCache, ManifestUrl, Wrap(response'.body, now))

\* the step only removes entries
OnlyRemoves ==
    /\ DOMAIN playlistCache' \subseteq DOMAIN playlistCache
    /\ \A k \in DOMAIN playlistCache' : playlistCache'[k] = playlistCache[k]

ManifestArrives == received' = received + 1

\* C35: a request for a URL of which the cache holds an entry that has not
\* expired (the body of an earlier X-Cache: MISS answer, no flush since) is
\* answered X-Cache: HIT with that body and starts no fetch
HitAfterMiss ==
    [][(ManifestArrives /\ HoldsFresh(ManifestUrl)) =>
          /\ response'.xcache = "HIT"
          /\ response'.body = playlistCache[ManifestUrl].v
          /\ inflight' = inflight]_vars

\* the same for the cached bodies that are not empty
HitAfterMissNotEmpty ==
    [][(ManifestArrives /\ HoldsFresh(ManifestUrl) /\ playlistCache[ManifestUrl].v # "") =>
          /\ response'.xcache = "HIT"
          /\ response'.body = playlistCache[ManifestUrl].v
          /\ inflight' = inflight]_vars

\* the lines of a body that are proxied URIs, and the proxied URI attributes
\* of its tags
ProxiedUris(body) ==
    LET lines == Split(body, "\n")
    IN  {lines[i] : i \in {j \in DOMAIN lines :
                            ~StartsWith(lines[j], "#") /\ Includes(lines[j], "-proxy?url=")}}
        \cup {UriMatch(lines[i])[1] : i \in {j \in DOMAIN lines :
                            /\ StartsWith(lines[j], "#")
                            /\ UriMatch(lines[j]) # Undefined
                            /\ Includes(UriMatch(lines[j])[1], "-proxy?url=")}}

\* C36: every proxied URI of a manifest response begins with the base URL
\* of the request it answers, whether the body was rewritten for it or comes
\* from the cache
ServedUnderOwnBase ==
    response.status = 200 =>
        \A uri \in ProxiedUris(response.body) :
            StartsWith(uri, getServerUrl(request.req) \o "/")

\* the same for the responses whose body was rewritten for the request
RewrittenUnderOwnBase ==
    (response.status = 200 /\ response.xcache = "MISS") =>
        \A uri \in ProxiedUris(response.body) :
            StartsWith(uri, getServerUrl(request.req) \o "/")

\* the step logs the request as an error: success false, counted in the
\* errors of the collector
LoggedAsError ==
    metrics'.globalMetrics.totalErrors = metrics.globalMetrics.totalErrors + 1

\* the step terminates a request with a response outside 2xx and logs it
LogsRefusal ==
    /\ Terminates
    /\ consoleLines' = consoleLines + 1
    /\ response'.status \notin 200..299

\* C38: what logRequest records of a /m3u8-proxy or /ts-proxy request agrees
\* with the response of the client: a request answered with a status outside
\* 2xx is recorded with success false and counted in totalErrors
LoggedAsAnswered == [][LogsRefusal => LoggedAsError]_vars

\* the answers the routes give themselves are logged as the errors they are
RejectionLoggedAsError == [][(LogsRefusal /\ inflight = Idle) => LoggedAsError]_vars

(***************************************************************************)
(* The frame of the manifest rewrite on #EXT-X-MEDIA and #EXT-X-KEY lines. *)
(***************************************************************************)
\* the position of the URI attribute the pattern matches with the value uri
UriAttributeAt(line, uri) == IndexOf(line, "URI=\"" \o uri \o "\"")

\* out is the line with the value of its URI attribute replaced and nothing
\* else changed: the text up to the opening quote and the text from the
\* closing quote on are kept
OnlyUriValueChanged(line, uri, out) ==
    LET k == UriAttributeAt(line, uri)
        before == SubSeq(line, 1, k + 4)
        after == From(line, k + 5 + Len(uri))
    IN  /\ StartsWith(out, before)
        /\ EndsWith(out, after)
        /\ Len(out) >= Len(before) + Len(after)

\* the #EXT-X-MEDIA or #EXT-X-KEY line whose URI the rewrite replaces
ReplacesUri(line) == IsMediaOrKey(line) /\ UriMatch(line) # Undefined

\* C40: where the rewrite replaces the URI of an #EXT-X-MEDIA or #EXT-X-KEY
\* line, only the value of the URI attribute changes and every other
\* attribute of the line is kept, also when the value of the URI occurs
\* earlier in the line
UriFrame ==
    Rewritten =>
        \A i \in DOMAIN InLines :
            ReplacesUri(Trim(InLines[i])) =>
                OnlyUriValueChanged(Trim(InLines[i]), UriMatch(Trim(InLines[i]))[1],
                                    OutLines[i])

\* the value of the URI occurs in the line before its attribute
OccursEarlier(line, uri) == IndexOf(line, uri) < UriAttributeAt(line, uri) + 5

\* the frame is kept on the lines whose URI value does not occur earlier
UriFrameWhenFirst ==
    Rewritten =>
        \A i \in DOMAIN InLines :
            (ReplacesUri(Trim(InLines[i]))
             /\ ~OccursEarlier(Trim(InLines[i]), UriMatch(Trim(InLines[i]))[1])) =>
                OnlyUriValueChanged(Trim(InLines[i]), UriMatch(Trim(InLines[i]))[1],
                                    OutLines[i])
=====
